---- MODULE Spec2Model ----
(***************************************************************************)
(* Model of the command-interpretation and trace-animation layer of the    *)
(* anatomy viewer:                                                         *)
(*   - useAgentProcessTrace (the process-trace scheduler),                 *)
(*   - the region resolvers (heart, brain, skeleton),                      *)
(*   - the controller reducers and the applyToolCalls dispatchers.         *)
(***************************************************************************)
EXTENDS Integers, Sequences, FiniteSets, TLC

VARIABLES
    \* ---- useAgentProcessTrace ----
    steps,             \* useState([]): the visible step list
    animationQueue,    \* animationQueueRef.current
    animationTimer,    \* animationTimerRef.current (0 = null)
    isAnimating,       \* isAnimatingRef.current
    timers,            \* timeouts outstanding in the host runtime
    now,               \* the clock read by new Date()
    epoch,             \* history: number of resets (startTrace/clearTrace) so far
    discarded,         \* history: the latest reset discarded a queued or in-flight step
    staleApplied,      \* history: a callback applied a step enqueued before the latest reset
    lastOp,            \* history: name of the latest public operation
    fired,             \* history: timer callbacks run since the latest public operation
    lastBatch,         \* history: what the latest updateFromServer or markFinalStatus
                       \* call handed to enqueueSteps
    enqueued,          \* history: steps pushed on the queue since the latest reset
    pushed,            \* history: the ids of the steps pushed since the latest reset
    applied            \* history: steps applied to the list since the latest reset

traceVars == <<steps, animationQueue, animationTimer, isAnimating, timers,
               now, epoch, discarded, staleApplied, lastOp, fired, lastBatch,
               enqueued, pushed, applied>>

\* ---- a call of a region resolver ----
VARIABLES
    resDomain,         \* which resolver is called: "heart", "brain" or "skeleton"
    resInput,          \* the argument of the call
    resWords,          \* history: the words the argument was spelled from (<<>>: none)
    resOut             \* the outcome of the call

resolveVars == <<resDomain, resInput, resWords, resOut>>

\* ---- a viewer: its controller state and its applyToolCalls ----
VARIABLES
    toolDomain,        \* which viewer: "heart", "brain", "skeleton",
                       \* "heart_unparsed" (the heart viewer of Root.jsx),
                       \* "app" (App.jsx) or "brain_legacy" (part_007)
    controllerState,   \* useReducer(controllerReducer, initialControllerState)
    toolCalls,         \* history: the batch of the latest applyToolCalls call
    toolResults,       \* the list returned by the latest applyToolCalls call
    toolThrew,         \* the latest applyToolCalls call raised instead of returning
    resultsPushed,     \* history: the results pushed by the latest call, returned or not
    stateLog,          \* history: controller state before the batch and after each call
    turns              \* history: applyToolCalls calls made so far

toolVars == <<toolDomain, controllerState, toolCalls, toolResults, toolThrew,
              resultsPushed, stateLog, turns>>

\* ---- a controller reducer applied to one action, repeatedly ----
VARIABLES
    redDomain,         \* which reducer: "heart", "brain", "skeleton" or "app"
    redAction,         \* the action dispatched
    redStates          \* history: the state before, and after each dispatch

reduceVars == <<redDomain, redAction, redStates>>

\* ---- handleSendMessage: the conversational turns of a viewer ----
VARIABLES
    isSending,         \* useState(false)
    closureSending,    \* isSending as the latest render gave it to handleSendMessage
    outstanding,       \* the turns whose request has not been answered yet
    turnsStarted,      \* history: the turns that passed the isSending guard so far
    responses,         \* history: what each turn's request came back with
    turnLog            \* history: the calls handleSendMessage made, in order,
                       \* each with the turn that made it

turnVars == <<isSending, closureSending, outstanding, turnsStarted, responses, turnLog>>

vars == <<traceVars, resolveVars, toolVars, reduceVars, turnVars>>

(***************************************************************************)
(* Bounds                                                                  *)
(***************************************************************************)
MaxOps == 3        \* public scheduler operations per behaviour
MaxFairOps == 2    \* the same, in the behaviours checked under fairness
MaxBatch == 2      \* length of an updateFromServer batch
MaxCalls == 2      \* tool calls per batch
MaxDispatch == 2   \* dispatches of the same action to a reducer
MaxTurns == 2      \* submissions that pass the isSending guard

(***************************************************************************)
(* Generic sequence helpers                                                *)
(***************************************************************************)
Range(s) == {s[i] : i \in 1..Len(s)}

RECURSIVE SeqsUpTo(_, _)
SeqsUpTo(S, n) ==
    IF n = 0 THEN {<<>>}
    ELSE LET shorter == SeqsUpTo(S, n - 1)
         IN  shorter \cup {Append(q, x) : q \in {r \in shorter : Len(r) = n - 1}, x \in S}

(***************************************************************************)
(* JavaScript values: a tagged record with the same fields for every type  *)
(***************************************************************************)
Undefined == [t |-> "undefined", n |-> 0, s |-> "", b |-> FALSE]
Null == [t |-> "null", n |-> 0, s |-> "", b |-> FALSE]
NaN == [t |-> "nan", n |-> 0, s |-> "", b |-> FALSE]
Obj == [t |-> "object", n |-> 0, s |-> "", b |-> FALSE]
Num(k) == [t |-> "number", n |-> k, s |-> "", b |-> FALSE]
Str(x) == [t |-> "string", n |-> 0, s |-> x, b |-> FALSE]
Bool(x) == [t |-> "boolean", n |-> 0, s |-> "", b |-> x]

\* ToBoolean
Truthy(v) ==
    CASE v.t = "undefined" -> FALSE
      [] v.t = "null" -> FALSE
      [] v.t = "nan" -> FALSE
      [] v.t = "number" -> v.n # 0
      [] v.t = "string" -> v.s # ""
      [] v.t = "boolean" -> v.b
      [] OTHER -> TRUE

\* v === undefined || v === null
Nullish(v) == v.t \in {"undefined", "null"}

(***************************************************************************)
(* useAgentProcessTrace: constants                                         *)
(***************************************************************************)
STEP_ORDER ==
    << "reading_prompt", "augmenting_context", "dispatching_to_gemini",
       "receiving_gemini_response", "extracting_tool_calls", "rendering_reply" >>

STEP_LABELS(id) ==
    CASE id = "reading_prompt" -> "Reading user prompt"
      [] id = "augmenting_context" -> "Augmenting context"
      [] id = "dispatching_to_gemini" -> "Dispatching to Gemini"
      [] id = "receiving_gemini_response" -> "Receiving response from Gemini"
      [] id = "extracting_tool_calls" -> "Extracting tool calls"
      [] id = "rendering_reply" -> "Rendering final reply"
      [] OTHER -> ""

\* STATUS_PRIORITY[status] ?? 0
STATUS_PRIORITY(status) ==
    CASE status = "error" -> 4
      [] status = "complete" -> 3
      [] status = "in-progress" -> 2
      [] status = "pending" -> 1
      [] OTHER -> 0

(***************************************************************************)
(* Strings, character by character                                         *)
(***************************************************************************)
CharAt(str, i) == SubSeq(str, i, i)

UpperAlphabet == "ABCDEFGHIJKLMNOPQRSTUVWXYZ"
LowerAlphabet == "abcdefghijklmnopqrstuvwxyz"

\* the characters \s matches and trim() strips
IsSpace(c) == c \in {" ", "\t", "\n"}

\* the case mappings of the ASCII letters, tabulated once
UpperToLower ==
    [c \in {CharAt(UpperAlphabet, i) : i \in 1..26} |->
        CharAt(LowerAlphabet, CHOOSE i \in 1..26 : CharAt(UpperAlphabet, i) = c)]

LowerToUpper ==
    [c \in {CharAt(LowerAlphabet, i) : i \in 1..26} |->
        CharAt(UpperAlphabet, CHOOSE i \in 1..26 : CharAt(LowerAlphabet, i) = c)]

LowerChar(c) == IF c \in DOMAIN UpperToLower THEN UpperToLower[c] ELSE c

UpperChar(c) == IF c \in DOMAIN LowerToUpper THEN LowerToUpper[c] ELSE c

\* String.prototype.toLowerCase
RECURSIVE ToLowerCase(_)
ToLowerCase(str) ==
    IF Len(str) = 0 THEN ""
    ELSE LowerChar(CharAt(str, 1)) \o ToLowerCase(SubSeq(str, 2, Len(str)))

RECURSIVE TrimStart(_)
TrimStart(str) ==
    IF Len(str) > 0 /\ IsSpace(CharAt(str, 1))
    THEN TrimStart(SubSeq(str, 2, Len(str)))
    ELSE str

RECURSIVE TrimEnd(_)
TrimEnd(str) ==
    IF Len(str) > 0 /\ IsSpace(CharAt(str, Len(str)))
    THEN TrimEnd(SubSeq(str, 1, Len(str) - 1))
    ELSE str

\* String.prototype.trim
Trim(str) == TrimEnd(TrimStart(str))

\* labelFor's fallback: id.split('_').map(capitalise).join(' ')
RECURSIVE TitleCase(_, _)
TitleCase(str, atStart) ==
    IF Len(str) = 0 THEN ""
    ELSE LET c == CharAt(str, 1)
             rest == SubSeq(str, 2, Len(str))
         IN  IF c = "_" THEN " " \o TitleCase(rest, TRUE)
             ELSE (IF atStart THEN UpperChar(c) ELSE c) \o TitleCase(rest, FALSE)

labelFor(id) ==
    IF STEP_LABELS(id) # "" THEN STEP_LABELS(id) ELSE TitleCase(id, TRUE)

\* collation weight of a character: space, then letters (case-insensitive)
CollationAlphabet == " abcdefghijklmnopqrstuvwxyz"
CollationWeight ==
    [c \in {CharAt(CollationAlphabet, i) : i \in 1..27} |->
        CHOOSE i \in 1..27 : CharAt(CollationAlphabet, i) = c]

CharWeight(c) ==
    IF LowerChar(c) \in DOMAIN CollationWeight THEN CollationWeight[LowerChar(c)] ELSE 0

\* a.localeCompare(b): sign of the comparison
RECURSIVE localeCompare(_, _)
localeCompare(a, b) ==
    IF Len(a) = 0 /\ Len(b) = 0 THEN 0
    ELSE IF Len(a) = 0 THEN -1
    ELSE IF Len(b) = 0 THEN 1
    ELSE IF CharWeight(CharAt(a, 1)) < CharWeight(CharAt(b, 1)) THEN -1
    ELSE IF CharWeight(CharAt(a, 1)) > CharWeight(CharAt(b, 1)) THEN 1
    ELSE localeCompare(SubSeq(a, 2, Len(a)), SubSeq(b, 2, Len(b)))

(***************************************************************************)
(* useAgentProcessTrace: pure helpers                                      *)
(***************************************************************************)
NoTimer == 0       \* animationTimerRef.current === null

\* a step as it arrives on the wire; status "" and timestamp 0 stand for absent
WireStep(id, status, detail, timestamp) ==
    [id |-> id, status |-> status, detail |-> detail, timestamp |-> timestamp]

\* a normalisation that does not know the synonym 'started'
normaliseStatus_KeepsStarted(status) ==
    IF status = "" THEN "complete" ELSE status

normaliseStatus(status) ==
    IF status = "" THEN "complete"
    ELSE IF status = "started" THEN "in-progress"
    ELSE status

\* strings, numbers and booleans pass; objects are cloned; null/undefined -> null
normaliseDetail(detail) ==
    IF Nullish(detail) THEN Null ELSE detail

\* normaliseStep throws for a falsy id; labelFor throws for a non-string id
StepHasId(w) == w.id.t = "string" /\ Truthy(w.id)

normaliseStep(w, clock) ==
    [id |-> w.id.s,
     label |-> labelFor(w.id.s),
     status |-> normaliseStatus(w.status),
     detail |-> normaliseDetail(w.detail),
     timestamp |-> IF w.timestamp # 0 THEN w.timestamp ELSE clock]

StepIndex(id) ==
    IF \E i \in 1..Len(STEP_ORDER) : STEP_ORDER[i] = id
    THEN (CHOOSE i \in 1..Len(STEP_ORDER) : STEP_ORDER[i] = id) - 1
    ELSE Len(STEP_ORDER)

\* the comparator of sortSteps: TRUE when a must come after b
ComesAfter(a, b) ==
    IF StepIndex(a.id) = StepIndex(b.id)
    THEN localeCompare(a.label, b.label) > 0
    ELSE StepIndex(a.id) > StepIndex(b.id)

\* stable insertion of x into the sorted sequence q
RECURSIVE InsertSorted(_, _)
InsertSorted(q, x) ==
    IF Len(q) = 0 THEN <<x>>
    ELSE IF ComesAfter(q[Len(q)], x)
         THEN Append(InsertSorted(SubSeq(q, 1, Len(q) - 1), x), q[Len(q)])
         ELSE Append(q, x)

\* a sort that leaves the steps in arrival order
sortSteps_KeepsArrivalOrder(q) == q

\* [...steps].sort(comparator): Array.prototype.sort is stable
\* (the sorted prefix is bound through a one-element set: it is evaluated once)
RECURSIVE sortSteps(_)
sortSteps(q) ==
    IF Len(q) = 0 THEN <<>>
    ELSE CHOOSE sorted \in {InsertSorted(prefix, q[Len(q)]) :
                               prefix \in {sortSteps(SubSeq(q, 1, Len(q) - 1))}} : TRUE

IndexOfId(list, id) ==
    IF \E i \in 1..Len(list) : list[i].id = id
    THEN CHOOSE i \in 1..Len(list) : list[i].id = id
    ELSE 0

\* a merge in which a complete update also replaces an error
MergeStatus_CompleteReplacesError(existing, normalised) ==
    IF normalised.status = "complete"
          \/ STATUS_PRIORITY(normalised.status) >= STATUS_PRIORITY(existing.status)
    THEN normalised.status
    ELSE existing.status

\* a merge that always takes the incoming status
MergeStatus_TakesIncoming(existing, normalised) == normalised.status

\* the status kept when an update meets an existing step
MergeStatus(existing, normalised) ==
    IF STATUS_PRIORITY(normalised.status) >= STATUS_PRIORITY(existing.status)
    THEN normalised.status
    ELSE existing.status

\* a merge that keeps the existing detail when the incoming one is falsy (||)
MergeDetail_FalsyKeepsExisting(existing, normalised) ==
    IF Truthy(normalised.detail) THEN normalised.detail ELSE existing.detail

\* normalised.detail ?? existing.detail ?? null
MergeDetail(existing, normalised) ==
    IF ~Nullish(normalised.detail) THEN normalised.detail
    ELSE IF ~Nullish(existing.detail) THEN existing.detail
    ELSE Null

\* an updater that adds the step whether or not its id is in the list
applyNormalisedStep_AlwaysAdds(previous, normalised) ==
    sortSteps(Append(previous, normalised))

\* the updater passed to setSteps in applyNormalisedStep
applyNormalisedStep(previous, normalised) ==
    LET i == IndexOfId(previous, normalised.id)
    IN  IF i = 0
        THEN sortSteps(Append(previous, normalised))
        ELSE sortSteps([previous EXCEPT ![i] =
                 [id |-> previous[i].id,
                  label |-> previous[i].label,
                  detail |-> MergeDetail(previous[i], normalised),
                  status |-> MergeStatus(previous[i], normalised),
                  timestamp |-> IF normalised.timestamp # 0 THEN normalised.timestamp
                                ELSE previous[i].timestamp]])

(***************************************************************************)
(* useAgentProcessTrace: the refs as one record, and the callbacks on it   *)
(***************************************************************************)
Refs ==
    [queue |-> animationQueue, timer |-> animationTimer, animating |-> isAnimating,
     timers |-> timers]

\* clearAnimationTimer that forgets the handle without calling clearTimeout
clearAnimationTimer_NoClearTimeout(m) ==
    [m EXCEPT !.timer = NoTimer, !.animating = FALSE]

\* clearTimeout(handle) removes the timeout from the host runtime
clearAnimationTimer(m) ==
    [m EXCEPT !.timers = IF m.timer # NoTimer
                         THEN {t \in m.timers : t.handle # m.timer}
                         ELSE m.timers,
              !.timer = NoTimer,
              !.animating = FALSE]

\* the handle window.setTimeout returns: one that no outstanding timeout has
NewHandle(ts) ==
    CHOOSE h \in 1..(Cardinality(ts) + 1) :
        /\ \A t \in ts : t.handle # h
        /\ \A g \in 1..(h - 1) : \E t \in ts : t.handle = g

\* processQueue that takes the newest queued step (pop) instead of the oldest
processQueue_TakesLast(m) ==
    IF m.animating THEN m
    ELSE IF Len(m.queue) = 0 THEN m
    ELSE [m EXCEPT !.queue = SubSeq(m.queue, 1, Len(m.queue) - 1),
                   !.animating = TRUE,
                   !.timer = NewHandle(m.timers),
                   !.timers = m.timers \cup
                              {[handle |-> NewHandle(m.timers),
                                item |-> m.queue[Len(m.queue)]]}]

\* processQueue without the isAnimatingRef guard
processQueue_NoGuard(m) ==
    IF Len(m.queue) = 0 THEN m
    ELSE [m EXCEPT !.queue = Tail(m.queue),
                   !.animating = TRUE,
                   !.timer = NewHandle(m.timers),
                   !.timers = m.timers \cup
                              {[handle |-> NewHandle(m.timers), item |-> Head(m.queue)]}]

\* processQueue up to and including window.setTimeout
processQueue(m) ==
    IF m.animating THEN m
    ELSE IF Len(m.queue) = 0 THEN m
    ELSE [m EXCEPT !.queue = Tail(m.queue),
                   !.animating = TRUE,
                   !.timer = NewHandle(m.timers),
                   !.timers = m.timers \cup
                              {[handle |-> NewHandle(m.timers), item |-> Head(m.queue)]}]

\* a loop that gives up on the batch at the first step normaliseStep rejects
RECURSIVE NormalisedList_StopsAtMalformed(_, _)
NormalisedList_StopsAtMalformed(incoming, clock) ==
    IF Len(incoming) = 0 THEN <<>>
    ELSE IF StepHasId(Head(incoming))
         THEN <<normaliseStep(Head(incoming), clock)>>
                  \o NormalisedList_StopsAtMalformed(Tail(incoming), clock)
         ELSE <<>>

\* normalisedList: the steps of the batch that normaliseStep accepts
RECURSIVE NormalisedList(_, _)
NormalisedList(incoming, clock) ==
    IF Len(incoming) = 0 THEN <<>>
    ELSE LET rest == NormalisedList(Tail(incoming), clock)
         IN  IF StepHasId(Head(incoming))
             THEN <<normaliseStep(Head(incoming), clock)>> \o rest
             ELSE rest

\* the argument of enqueueSteps: an array of wire steps, or a value that is
\* not an array (undefined, an object)
ArrayOf(items) == [array |-> TRUE, items |-> items]
NotAnArray == [array |-> FALSE, items |-> <<>>]

\* history: the steps of the batch whose timestamp normaliseStep supplied,
\* because the wire step carried none
StampedByNormalise(incoming, clock) ==
    {normaliseStep(w, clock) : w \in {v \in Range(incoming) : StepHasId(v) /\ v.timestamp = 0}}

\* queue items carry, as history, the epoch they were pushed in, their
\* position among the steps pushed since the latest reset, and whether
\* their wire step carried no timestamp
Tagged(list, e, n, stamped) ==
    [i \in 1..Len(list) |->
        [step |-> list[i], epoch |-> e, seq |-> n + i, stamped |-> list[i] \in stamped]]

enqueueSteps(m, incoming, clock, e, n) ==
    IF ~incoming.array \/ Len(incoming.items) = 0 THEN m
    ELSE LET normalisedList == NormalisedList(incoming.items, clock)
         IN  IF Len(normalisedList) = 0 THEN m
             ELSE processQueue([m EXCEPT !.queue =
                      m.queue \o Tagged(sortSteps(normalisedList), e, n,
                                         StampedByNormalise(incoming.items, clock))])

\* a reset that leaves the queue as it is
ResetRefs_KeepsQueue(m) ==
    [clearAnimationTimer(m) EXCEPT !.animating = FALSE]

\* clearAnimationTimer(); animationQueueRef.current = []; isAnimatingRef.current = false
ResetRefs(m) ==
    [clearAnimationTimer(m) EXCEPT !.queue = <<>>, !.animating = FALSE]

SetRefs(m) ==
    /\ animationQueue' = m.queue
    /\ animationTimer' = m.timer
    /\ isAnimating' = m.animating
    /\ timers' = m.timers

\* a seed without the dispatching stage
SeedSteps_WithoutDispatching(clock) ==
    << WireStep(Str("reading_prompt"), "in-progress", Undefined, clock),
       WireStep(Str("augmenting_context"), "pending", Undefined, clock) >>

\* the three steps startTrace hands to enqueueSteps
SeedSteps(clock) ==
    << WireStep(Str("reading_prompt"), "in-progress", Undefined, clock),
       WireStep(Str("augmenting_context"), "pending", Undefined, clock),
       WireStep(Str("dispatching_to_gemini"), "pending", Undefined, clock) >>

(***************************************************************************)
(* Inputs of the scheduler                                                 *)
(***************************************************************************)
DispatchSent == WireStep(Str("dispatching_to_gemini"), "complete", Str("sent"), 0)
DispatchLate == WireStep(Str("dispatching_to_gemini"), "pending", Undefined, 9)
ToolB == WireStep(Str("tool_b"), "started", Undefined, 0)
ToolA == WireStep(Str("tool_a"), "", Str("queued"), 0)
Malformed == WireStep(Undefined, "error", Str("lost"), 0)
DispatchBlank == WireStep(Str("dispatching_to_gemini"), "pending", Str(""), 0)

ServerSteps == {DispatchSent, DispatchLate, ToolB, ToolA, Malformed}

\* the batches tried: each step alone, and batches that mix a step without an
\* id with valid ones, two updates of one id (the second without a detail, or
\* with an empty one), and ids out of canonical order
ServerBatches ==
    { batch \in { <<>> } \cup { <<step>> : step \in ServerSteps }
                 \cup { <<Malformed, ToolB>>, <<ToolB, ToolA>>,
                        <<DispatchSent, DispatchLate>>, <<DispatchSent, DispatchBlank>>,
                        <<ToolB, Malformed, ToolA>>,
                        <<DispatchLate, ToolA, DispatchSent>> } :
          Len(batch) <= MaxBatch }

\* what updateFromServer is called with: data.agentSteps, or something else
ServerInputs == {ArrayOf(batch) : batch \in ServerBatches} \cup {NotAnArray}

\* an object told apart by the name of its first property
ObjectWith(property) == [Obj EXCEPT !.s = property]

\* the two markFinalStatus calls of handleSendMessage
FinalCalls ==
    { [status |-> "complete", detail |-> ObjectWith("toolCallCount")],
      [status |-> "error", detail |-> ObjectWith("message")] }

(***************************************************************************)
(* useAgentProcessTrace: operations                                        *)
(***************************************************************************)
startTrace ==
    /\ SetRefs(enqueueSteps(ResetRefs(Refs), ArrayOf(SeedSteps(now)), now, epoch + 1, 0))
    /\ enqueued' = Len(SeedSteps(now))
    /\ pushed' = {SeedSteps(now)[i].id.s : i \in 1..Len(SeedSteps(now))}
    /\ lastBatch' = NotAnArray
    /\ applied' = 0
    /\ steps' = <<>>
    /\ epoch' = epoch + 1
    /\ discarded' = (Len(animationQueue) > 0 \/ timers # {})
    /\ now' = now + 1
    /\ lastOp' = "startTrace"
    /\ fired' = 0
    /\ UNCHANGED staleApplied

StartTrace ==
    /\ now <= MaxOps
    /\ startTrace

\* updateFromServer that also shows the first step of the batch at once
UpdateFromServer_ShowsFirstAtOnce(serverSteps) ==
    /\ now <= MaxOps
    /\ SetRefs(enqueueSteps(Refs, serverSteps, now, epoch, enqueued))
    /\ steps' = IF Len(NormalisedList(serverSteps.items, now)) = 0 THEN steps
                ELSE applyNormalisedStep(steps,
                         sortSteps(NormalisedList(serverSteps.items, now))[1])
    /\ enqueued' = enqueued + Len(NormalisedList(serverSteps.items, now))
    /\ pushed' = pushed \cup {step.id : step \in Range(NormalisedList(serverSteps.items, now))}
    /\ lastBatch' = serverSteps
    /\ now' = now + 1
    /\ lastOp' = "updateFromServer"
    /\ fired' = 0
    /\ UNCHANGED <<epoch, discarded, staleApplied, applied>>

UpdateFromServer(serverSteps) ==
    /\ now <= MaxOps
    /\ SetRefs(enqueueSteps(Refs, serverSteps, now, epoch, enqueued))
    /\ enqueued' = enqueued + Len(NormalisedList(serverSteps.items, now))
    /\ pushed' = pushed \cup {step.id : step \in Range(NormalisedList(serverSteps.items, now))}
    /\ lastBatch' = serverSteps
    /\ now' = now + 1
    /\ lastOp' = "updateFromServer"
    /\ fired' = 0
    /\ UNCHANGED <<steps, epoch, discarded, staleApplied, applied>>

\* the step markFinalStatus builds from its arguments
FinalStep(status, detail, clock) == WireStep(Str("rendering_reply"), status, detail, clock)

\* markFinalStatus that does not pass the detail on
MarkFinalStatus_WithoutDetail(status, detail) ==
    /\ now <= MaxOps
    /\ SetRefs(enqueueSteps(Refs, ArrayOf(<<FinalStep(status, Undefined, now)>>),
                            now, epoch, enqueued))
    /\ lastBatch' = ArrayOf(<<FinalStep(status, detail, now)>>)
    /\ enqueued' = enqueued + 1
    /\ pushed' = pushed \cup {"rendering_reply"}
    /\ now' = now + 1
    /\ lastOp' = "markFinalStatus"
    /\ fired' = 0
    /\ UNCHANGED <<steps, epoch, discarded, staleApplied, applied>>

MarkFinalStatus(status, detail) ==
    /\ now <= MaxOps
    /\ SetRefs(enqueueSteps(Refs, ArrayOf(<<FinalStep(status, detail, now)>>),
                            now, epoch, enqueued))
    /\ lastBatch' = ArrayOf(<<FinalStep(status, detail, now)>>)
    /\ enqueued' = enqueued + 1
    /\ pushed' = pushed \cup {"rendering_reply"}
    /\ now' = now + 1
    /\ lastOp' = "markFinalStatus"
    /\ fired' = 0
    /\ UNCHANGED <<steps, epoch, discarded, staleApplied, applied>>

ClearTrace ==
    /\ now <= MaxOps
    /\ SetRefs(ResetRefs(Refs))
    /\ enqueued' = 0
    /\ pushed' = {}
    /\ applied' = 0
    /\ lastBatch' = NotAnArray
    /\ steps' = <<>>
    /\ epoch' = epoch + 1
    /\ discarded' = (Len(animationQueue) > 0 \/ timers # {})
    /\ now' = now + 1
    /\ lastOp' = "clearTrace"
    /\ fired' = 0
    /\ UNCHANGED staleApplied

\* a callback whose finally clears the flag but does not call processQueue
TimerFire_NoRestart(t) ==
    /\ steps' = applyNormalisedStep(steps, t.item.step)
    /\ SetRefs([Refs EXCEPT !.timers = timers \ {t},
                            !.timer = NoTimer,
                            !.animating = FALSE])
    /\ staleApplied' = (staleApplied \/ t.item.epoch # epoch)
    /\ fired' = fired + 1
    /\ applied' = IF t.item.epoch = epoch THEN applied + 1 ELSE applied
    /\ UNCHANGED <<now, epoch, discarded, lastOp, enqueued, pushed, lastBatch>>

\* the callback handed to window.setTimeout, run when timeout t expires
TimerFire(t) ==
    /\ steps' = applyNormalisedStep(steps, t.item.step)
    /\ SetRefs(processQueue([Refs EXCEPT !.timers = timers \ {t},
                                         !.timer = NoTimer,
                                         !.animating = FALSE]))
    /\ staleApplied' = (staleApplied \/ t.item.epoch # epoch)
    /\ fired' = fired + 1
    /\ applied' = IF t.item.epoch = epoch THEN applied + 1 ELSE applied
    /\ UNCHANGED <<now, epoch, discarded, lastOp, enqueued, pushed, lastBatch>>

TraceInit ==
    /\ steps = <<>>
    /\ animationQueue = <<>>
    /\ animationTimer = NoTimer
    /\ isAnimating = FALSE
    /\ timers = {}
    /\ now = 1
    /\ epoch = 0
    /\ discarded = FALSE
    /\ staleApplied = FALSE
    /\ lastOp = "init"
    /\ fired = 0
    /\ enqueued = 0
    /\ pushed = {}
    /\ applied = 0
    /\ lastBatch = NotAnArray

TraceNext ==
    \/ StartTrace
    \/ \E serverSteps \in ServerInputs : UpdateFromServer(serverSteps)
    \/ \E final \in FinalCalls : MarkFinalStatus(final.status, final.detail)
    \/ ClearTrace
    \/ \E t \in timers : TimerFire(t)


(***************************************************************************)
(* Region tables, in insertion order (Object.entries order)                *)
(***************************************************************************)
\* heartRegions.js
HEART_REGIONS ==
    <<
       [key |-> "left atrium", label |-> "Left Atrium", color |-> "#ff00ff",
        aliases |-> <<"left atrium", "left atrial chamber", "la">>, fileName |-> ""],
       [key |-> "right atrium", label |-> "Right Atrium", color |-> "#00ffff",
        aliases |-> <<"right atrium", "right atrial chamber", "ra">>, fileName |-> ""],
       [key |-> "left ventricle", label |-> "Left Ventricle", color |-> "#00ff00",
        aliases |-> <<"left ventricle", "lv">>, fileName |-> ""],
       [key |-> "right ventricle", label |-> "Right Ventricle", color |-> "#ffff00",
        aliases |-> <<"right ventricle", "rv">>, fileName |-> ""],
       [key |-> "aorta", label |-> "Aorta", color |-> "#ff1493",
        aliases |-> <<"aorta", "ascending aorta">>, fileName |-> ""],
       [key |-> "pulmonary trunk", label |-> "Pulmonary Trunk", color |-> "#8b5cf6",
        aliases |-> <<"pulmonary trunk", "pulmonary artery", "main pulmonary artery">>, fileName |-> ""],
       [key |-> "veins", label |-> "Veins", color |-> "#00ced1",
        aliases |-> <<"veins", "venous system", "pulmonary veins", "vena cava">>, fileName |-> ""],
       [key |-> "arteries", label |-> "Arteries", color |-> "#ff6ec7",
        aliases |-> <<"arteries", "arterial system", "pulmonary arteries">>, fileName |-> ""]
    >>

\* brainRegions.js
BRAIN_REGIONS ==
    <<
       [key |-> "left hemisphere", label |-> "Left Hemisphere", color |-> "#ff00ff",
        aliases |-> <<"left hemisphere", "left brain", "left cerebral hemisphere", "left side">>, fileName |-> ""],
       [key |-> "right hemisphere", label |-> "Right Hemisphere", color |-> "#00ffff",
        aliases |-> <<"right hemisphere", "right brain", "right cerebral hemisphere", "right side">>, fileName |-> ""],
       [key |-> "brain stem", label |-> "Brain Stem", color |-> "#00ff00",
        aliases |-> <<"brain stem", "brainstem", "brain_stem", "stem">>, fileName |-> ""],
       [key |-> "cerebellum", label |-> "Cerebellum", color |-> "#8b5cf6",
        aliases |-> <<"cerebellum", "cerebellar">>, fileName |-> ""],
       [key |-> "olfactory nerve", label |-> "Olfactory Nerve", color |-> "#ff1493",
        aliases |-> <<"olfactory nerve", "olfactory", "cranial nerve 1", "cn1">>, fileName |-> ""],
       [key |-> "stria medullaris", label |-> "Stria Medullaris", color |-> "#00ced1",
        aliases |-> <<"stria medullaris", "stria mediullari", "stria">>, fileName |-> ""]
    >>

\* skeletonRegions.js
SKELETON_REGIONS ==
    <<
       [key |-> "skull", label |-> "Skull", color |-> "#ff00ff",
        aliases |-> <<"skull", "cranium", "head">>, fileName |-> "skull"],
       [key |-> "spine", label |-> "Spine", color |-> "#00ffff",
        aliases |-> <<"spine", "vertebrae", "vertebral column", "spinal column", "backbone">>, fileName |-> "spine"],
       [key |-> "rib cage", label |-> "Rib Cage", color |-> "#00ff00",
        aliases |-> <<"rib cage", "ribs", "ribcage", "thoracic cage", "chest">>, fileName |-> "rib_cage"],
       [key |-> "scapula", label |-> "Scapula", color |-> "#8b5cf6",
        aliases |-> <<"scapula", "scapulae", "shoulder blade", "shoulder blades">>, fileName |-> "scapula"],
       [key |-> "clavicle", label |-> "Clavicle", color |-> "#ff1493",
        aliases |-> <<"clavicle", "clavicles", "collarbone", "collar bone">>, fileName |-> "clavicle"],
       [key |-> "pelvis", label |-> "Pelvis", color |-> "#00ced1",
        aliases |-> <<"pelvis", "pelvic", "hip bone", "hip bones">>, fileName |-> "pelvis"],
       [key |-> "left humerus", label |-> "Left Humerus, Ulna & Radius", color |-> "#ffa500",
        aliases |-> <<"left humerus", "left ulna", "left radius", "left arm bones", "left upper arm", "left forearm">>, fileName |-> "left_humerus_ulna_radius"],
       [key |-> "right humerus", label |-> "Right Humerus, Ulna & Radius", color |-> "#ffff00",
        aliases |-> <<"right humerus", "right ulna", "right radius", "right arm bones", "right upper arm", "right forearm">>, fileName |-> "right_humerus_ulna_radius"],
       [key |-> "left hand", label |-> "Left Hand", color |-> "#ff69b4",
        aliases |-> <<"left hand", "left fingers", "left metacarpals", "left phalanges">>, fileName |-> "left_hand"],
       [key |-> "right hand", label |-> "Right Hand", color |-> "#87ceeb",
        aliases |-> <<"right hand", "right fingers", "right metacarpals", "right phalanges">>, fileName |-> "right_hand"],
       [key |-> "left femur", label |-> "Left Femur", color |-> "#98fb98",
        aliases |-> <<"left femur", "left thigh bone", "left thighbone">>, fileName |-> "left_femur"],
       [key |-> "right femur", label |-> "Right Femur", color |-> "#dda0dd",
        aliases |-> <<"right femur", "right thigh bone", "right thighbone">>, fileName |-> "right_femur"],
       [key |-> "left patella", label |-> "Left Patella", color |-> "#f0e68c",
        aliases |-> <<"left patella", "left kneecap", "left knee cap">>, fileName |-> "left_patella"],
       [key |-> "right patella", label |-> "Right Patella", color |-> "#e0ffff",
        aliases |-> <<"right patella", "right kneecap", "right knee cap">>, fileName |-> "right_patella"],
       [key |-> "left tibia", label |-> "Left Fibula & Tibia", color |-> "#ffb6c1",
        aliases |-> <<"left tibia", "left fibula", "left shin bone", "left shinbone", "left lower leg">>, fileName |-> "left_fibula_tibia"],
       [key |-> "right tibia", label |-> "Right Fibula & Tibia", color |-> "#ffd700",
        aliases |-> <<"right tibia", "right fibula", "right shin bone", "right shinbone", "right lower leg">>, fileName |-> "right_fibula_tibia"],
       [key |-> "left foot", label |-> "Left Foot", color |-> "#adff2f",
        aliases |-> <<"left foot", "left toes", "left tarsals", "left metatarsals">>, fileName |-> "left_foot"],
       [key |-> "right foot", label |-> "Right Foot", color |-> "#ff6347",
        aliases |-> <<"right foot", "right toes", "right tarsals", "right metatarsals">>, fileName |-> "right_foot"]
    >>

(***************************************************************************)
(* Region resolvers                                                        *)
(***************************************************************************)
IsDash(c) == c \in {"-", "_"}

RECURSIVE SkipDashes(_)
SkipDashes(str) ==
    IF Len(str) > 0 /\ IsDash(CharAt(str, 1))
    THEN SkipDashes(SubSeq(str, 2, Len(str)))
    ELSE str

\* str.replace(/[-_]+/g, ' ')
RECURSIVE ReplaceDashRuns(_)
ReplaceDashRuns(str) ==
    IF Len(str) = 0 THEN ""
    ELSE IF IsDash(CharAt(str, 1)) THEN " " \o ReplaceDashRuns(SkipDashes(str))
    ELSE CharAt(str, 1) \o ReplaceDashRuns(SubSeq(str, 2, Len(str)))

\* str.replace(/\s+/g, ' ')
RECURSIVE ReplaceSpaceRuns(_)
ReplaceSpaceRuns(str) ==
    IF Len(str) = 0 THEN ""
    ELSE IF IsSpace(CharAt(str, 1)) THEN " " \o ReplaceSpaceRuns(TrimStart(str))
    ELSE CharAt(str, 1) \o ReplaceSpaceRuns(SubSeq(str, 2, Len(str)))

\* const compact = input.trim().toLowerCase()
Compact(str) == ToLowerCase(Trim(str))

\* a normalisation that collapses whitespace but leaves '-' and '_' alone
NormaliseSeparators_SpacesOnly(str) == Trim(ReplaceSpaceRuns(str))

\* x.replace(/[-_]+/g, ' ').replace(/\s+/g, ' ').trim()
NormaliseSeparators(str) == Trim(ReplaceSpaceRuns(ReplaceDashRuns(str)))

\* alias.replace(/[-_]+/g, ' ').replace(/\s+/g, ' ').trim() for every alias of a
\* table, tabulated once
AliasesNormalised(table) ==
    [i \in 1..Len(table) |->
        [a \in 1..Len(table[i].aliases) |-> NormaliseSeparators(table[i].aliases[a])]]

HeartAliasesNormalised == AliasesNormalised(HEART_REGIONS)
BrainAliasesNormalised == AliasesNormalised(BRAIN_REGIONS)

\* a test that looks at the canonical key only
EntryMatches_KeyOnly(entry, aliasNormalised, compact, normalised) ==
    \/ entry.key = normalised
    \/ entry.key = compact

\* the test made on one table entry by resolveHeartRegionName / resolveBrainRegionName
EntryMatches(entry, aliasNormalised, compact, normalised) ==
    \/ entry.key = normalised
    \/ entry.key = compact
    \/ \E a \in 1..Len(entry.aliases) :
          \/ aliasNormalised[a] = normalised
          \/ entry.aliases[a] = compact

Lowest(indices) == IF indices = {} THEN 0 ELSE CHOOSE i \in indices : \A j \in indices : i <= j

\* index of the first entry of the table, in insertion order, that the test accepts
FirstMatch(table, aliasesNormalised, compact, normalised) ==
    Lowest({i \in 1..Len(table) :
               EntryMatches(table[i], aliasesNormalised[i], compact, normalised)})

\* outcome of a resolver call: index 0 is null; threw is a TypeError
Resolved(i) == [threw |-> FALSE, index |-> i]
ResolveThrew == [threw |-> TRUE, index |-> 0]

\* if (!input) return null; input.trim() is a TypeError unless input is a string
ResolveExact(table, aliasesNormalised, input) ==
    IF ~Truthy(input) THEN Resolved(0)
    ELSE IF input.t # "string" THEN ResolveThrew
    ELSE Resolved(FirstMatch(table, aliasesNormalised, Compact(input.s),
                             NormaliseSeparators(Compact(input.s))))

resolveHeartRegionName(input) == ResolveExact(HEART_REGIONS, HeartAliasesNormalised, input)

resolveBrainRegionName(input) == ResolveExact(BRAIN_REGIONS, BrainAliasesNormalised, input)

\* String.prototype.includes
Includes(hay, needle) ==
    \E i \in 1..(Len(hay) - Len(needle) + 1) : SubSeq(hay, i, i + Len(needle) - 1) = needle

\* a test that looks for the entry's key, not for its aliases
SkeletonEntryMatches_KeyOnly(entry, lowerName) == Includes(lowerName, entry.key)

\* region.aliases.some(alias => lowerName.includes(alias))
SkeletonEntryMatches(entry, lowerName) ==
    \E a \in 1..Len(entry.aliases) : Includes(lowerName, entry.aliases[a])

\* name.toLowerCase() is a TypeError unless name is a string
findRegionByName(name) ==
    IF name.t # "string" THEN ResolveThrew
    ELSE Resolved(Lowest({i \in 1..Len(SKELETON_REGIONS) :
                             SkeletonEntryMatches(SKELETON_REGIONS[i], ToLowerCase(name.s))}))

\* the table and the resolver of a viewer
RegionTable(domain) ==
    CASE domain = "heart" -> HEART_REGIONS
      [] domain = "brain" -> BRAIN_REGIONS
      [] OTHER -> SKELETON_REGIONS

ResolverOf(domain, input) ==
    CASE domain = "heart" -> resolveHeartRegionName(input)
      [] domain = "brain" -> resolveBrainRegionName(input)
      [] OTHER -> findRegionByName(input)

(***************************************************************************)
(* Controller state and reducers                                           *)
(***************************************************************************)
\* numbers of the viewers are held in tenths: Num(31) is 3.1
Tenths(whole) == Num(whole * 10)

\* Number.isFinite(v)
IsFiniteNumber(v) == v.t = "number"

NoHighlight ==
    [set |-> FALSE, key |-> "", color |-> Undefined, label |-> "", comment |-> "",
     fileName |-> ""]

NoAnnotation == [set |-> FALSE, title |-> Undefined, description |-> Undefined]

initialControllerState(domain) ==
    CASE domain = "skeleton" ->
            [view |-> [azimuth |-> Tenths(25), elevation |-> Tenths(15),
                       distance |-> Tenths(4)],
             highlightRegion |-> NoHighlight, annotation |-> NoAnnotation]
      [] domain = "app" ->
            [view |-> [azimuth |-> Tenths(15), elevation |-> Tenths(20),
                       distance |-> Num(32)],
             highlightRegion |-> NoHighlight, autoRotate |-> TRUE,
             annotation |-> NoAnnotation]
      [] domain = "brain_legacy" ->
            [view |-> [azimuth |-> Tenths(20), elevation |-> Tenths(18),
                       distance |-> Num(31)],
             annotation |-> NoAnnotation, autoRotate |-> FALSE]
      [] OTHER ->
            [view |-> [azimuth |-> Tenths(20), elevation |-> Tenths(18),
                       distance |-> Num(31)],
             highlightRegion |-> NoHighlight, annotation |-> NoAnnotation]

\* reducer actions: every action carries every payload field
Action(type) ==
    [type |-> type, azimuth |-> Undefined, elevation |-> Undefined, distance |-> Undefined,
     highlight |-> NoHighlight, annotation |-> NoAnnotation, flag |-> Undefined]

SetView(azimuth, elevation, distance) ==
    [Action("SET_VIEW") EXCEPT !.azimuth = azimuth, !.elevation = elevation,
                               !.distance = distance]

\* a SET_VIEW that falls back to the viewer's default distance
ReduceSetView_DefaultDistance(state, action) ==
    [state EXCEPT !.view =
        [azimuth |-> IF Nullish(action.azimuth) THEN state.view.azimuth ELSE action.azimuth,
         elevation |-> IF Nullish(action.elevation) THEN state.view.elevation
                       ELSE action.elevation,
         distance |-> IF IsFiniteNumber(action.distance) THEN action.distance
                      ELSE Num(31)]]

\* the SET_VIEW case
ReduceSetView(state, action) ==
    [state EXCEPT !.view =
        [azimuth |-> IF Nullish(action.azimuth) THEN state.view.azimuth ELSE action.azimuth,
         elevation |-> IF Nullish(action.elevation) THEN state.view.elevation
                       ELSE action.elevation,
         distance |-> IF IsFiniteNumber(action.distance) THEN action.distance
                      ELSE state.view.distance]]

\* controllerReducer of the heart and brain viewers
HeartBrainReducer(state, action) ==
    CASE action.type = "SET_VIEW" -> ReduceSetView(state, action)
      [] action.type = "SET_HIGHLIGHT" -> [state EXCEPT !.highlightRegion = action.highlight]
      [] action.type = "CLEAR_HIGHLIGHT" -> [state EXCEPT !.highlightRegion = NoHighlight]
      [] action.type = "SET_ANNOTATION" -> [state EXCEPT !.annotation = action.annotation]
      [] OTHER -> state

\* controllerReducer of the skeleton viewer
SkeletonReducer(state, action) ==
    CASE action.type = "SET_VIEW" -> ReduceSetView(state, action)
      [] action.type = "SET_ANNOTATION" -> [state EXCEPT !.annotation = action.annotation]
      [] action.type = "HIGHLIGHT_REGION" -> [state EXCEPT !.highlightRegion = action.highlight]
      [] OTHER -> state

\* a reducer whose SET_AUTO_ROTATE flips the flag instead of setting it
AppReducer_ToggleFlips(state, action) ==
    CASE action.type = "SET_VIEW" ->
            [ReduceSetView(state, action) EXCEPT !.autoRotate = FALSE]
      [] action.type = "SET_AUTO_ROTATE" -> [state EXCEPT !.autoRotate = ~state.autoRotate]
      [] action.type = "SET_HIGHLIGHT" -> [state EXCEPT !.highlightRegion = action.highlight]
      [] action.type = "CLEAR_HIGHLIGHT" -> [state EXCEPT !.highlightRegion = NoHighlight]
      [] action.type = "SET_ANNOTATION" -> [state EXCEPT !.annotation = action.annotation]
      [] OTHER -> state

\* controllerReducer of the combined viewer (App.jsx): SET_VIEW also stops the
\* rotation, SET_AUTO_ROTATE stores Boolean(payload)
AppReducer(state, action) ==
    CASE action.type = "SET_VIEW" ->
            [ReduceSetView(state, action) EXCEPT !.autoRotate = FALSE]
      [] action.type = "SET_AUTO_ROTATE" -> [state EXCEPT !.autoRotate = Truthy(action.flag)]
      [] action.type = "SET_HIGHLIGHT" -> [state EXCEPT !.highlightRegion = action.highlight]
      [] action.type = "CLEAR_HIGHLIGHT" -> [state EXCEPT !.highlightRegion = NoHighlight]
      [] action.type = "SET_ANNOTATION" -> [state EXCEPT !.annotation = action.annotation]
      [] OTHER -> state

\* a reducer whose SET_VIEW leaves the rotation as it is
LegacyBrainReducer_ViewKeepsRotation(state, action) ==
    CASE action.type = "SET_VIEW" -> ReduceSetView(state, action)
      [] action.type = "SET_AUTO_ROTATE" -> [state EXCEPT !.autoRotate = Truthy(action.flag)]
      [] action.type = "SET_ANNOTATION" -> [state EXCEPT !.annotation = action.annotation]
      [] OTHER -> state

\* controllerReducer of the earlier brain viewer (part_007): no highlight
LegacyBrainReducer(state, action) ==
    CASE action.type = "SET_VIEW" ->
            [ReduceSetView(state, action) EXCEPT !.autoRotate = FALSE]
      [] action.type = "SET_AUTO_ROTATE" -> [state EXCEPT !.autoRotate = Truthy(action.flag)]
      [] action.type = "SET_ANNOTATION" -> [state EXCEPT !.annotation = action.annotation]
      [] OTHER -> state

controllerReducer(domain, state, action) ==
    CASE domain = "skeleton" -> SkeletonReducer(state, action)
      [] domain = "app" -> AppReducer(state, action)
      [] domain = "brain_legacy" -> LegacyBrainReducer(state, action)
      [] OTHER -> HeartBrainReducer(state, action)

\* the state after the dispatched actions have been reduced, in dispatch order
RECURSIVE ReduceAll(_, _, _)
ReduceAll(domain, state, actions) ==
    IF Len(actions) = 0 THEN state
    ELSE ReduceAll(domain, controllerReducer(domain, state, Head(actions)), Tail(actions))

(***************************************************************************)
(* Tool calls and their arguments                                          *)
(***************************************************************************)
\* an arguments object; a field that is absent reads as undefined
NoArgs ==
    [azimuth |-> Undefined, elevation |-> Undefined, distance |-> Undefined,
     region |-> Undefined, color |-> Undefined, comment |-> Undefined,
     detail |-> Undefined, enabled |-> Undefined, title |-> Undefined,
     description |-> Undefined]

\* the arguments field of a tool call:
\*   "object"     an object with the given fields
\*   "json"       the JSON text of an object, held as the members written in
\*                it, in order: <<[key |-> "azimuth", value |-> Num(300)], ...>>
\*   "scalartext" JSON text of a value that is not an object
\*   "badtext"    a string that is not JSON; fields holds what is written in
\*                it, e.g. '{azimuth: 1, elevation: 0.5' (no JSON parser reads it)
\*   "null", "undefined"
RawArguments(form, fields) == [form |-> form, fields |-> fields, members |-> <<>>]

JsonText(members) == [form |-> "json", fields |-> NoArgs, members |-> members]

Member(key, value) == [key |-> key, value |-> value]

\* JSON.parse of the text of an object: the members are assigned in the
\* order written, so a repeated key keeps its last value; a field that no
\* member names reads as undefined
RECURSIVE JSONparse(_, _)
JSONparse(members, object) ==
    IF Len(members) = 0 THEN object
    ELSE JSONparse(Tail(members),
                   IF Head(members).key \in DOMAIN object
                   THEN [object EXCEPT ![Head(members).key] = Head(members).value]
                   ELSE object)

\* a dispatcher that hands the arguments field to the switch as it is: a
\* string has none of the fields the switch reads
ReadUnparsed(raw) ==
    IF raw.form = "object" THEN raw.fields ELSE NoArgs

ToolCall(name, arguments) == [name |-> name, arguments |-> arguments]

\* a parser that reads the fields written in a string that is not JSON
parseToolArguments_ReadsBadText(raw) ==
    CASE raw.form \in {"null", "undefined"} -> NoArgs
      [] raw.form = "json" -> JSONparse(raw.members, NoArgs)
      [] raw.form = "scalartext" -> NoArgs
      [] OTHER -> raw.fields

\* if (!args) return {}; a string is JSON.parse'd inside try/catch and kept
\* only if the value is an object; anything else is returned as it is
parseToolArguments(raw) ==
    CASE raw.form \in {"null", "undefined"} -> NoArgs
      [] raw.form = "json" -> JSONparse(raw.members, NoArgs)
      [] raw.form \in {"scalartext", "badtext"} -> NoArgs
      [] OTHER -> raw.fields

\* a ToolResult; response.status repeats status, response.detail is detail
NoDetail ==
    [text |-> "", azimuth |-> Undefined, elevation |-> Undefined, distance |-> Undefined,
     regionKey |-> Undefined, regionLabel |-> Undefined, region |-> Undefined,
     color |-> Undefined, comment |-> Undefined, title |-> Undefined,
     description |-> Undefined, enabled |-> Undefined]

ToolResult(name, status, message, detail) ==
    [name |-> name, status |-> status, message |-> message, detail |-> detail]

ErrorResult(name, message) ==
    ToolResult(name, "error", message, [NoDetail EXCEPT !.text = message])

\* what the forEach callback does for one call
Returned(result, actions) == [threw |-> FALSE, result |-> result, actions |-> actions]
Raised == [threw |-> TRUE, result |-> ErrorResult("", ""), actions |-> <<>>]

Abs(k) == IF k < 0 THEN -k ELSE k
Sign(k) == IF k < 0 THEN "-" ELSE ""

\* (k/10).toFixed(1) and (k/10).toFixed(2)
ToFixed1(v) == Sign(v.n) \o ToString(Abs(v.n) \div 10) \o "." \o ToString(Abs(v.n) % 10)
ToFixed2(v) == ToFixed1(v) \o "0"

\* String(v), as a template literal renders it
ToText(v) ==
    CASE v.t = "string" -> v.s
      [] v.t = "number" ->
            IF v.n % 10 = 0 THEN Sign(v.n) \o ToString(Abs(v.n) \div 10) ELSE ToFixed1(v)
      [] v.t = "boolean" -> IF v.b THEN "true" ELSE "false"
      [] v.t = "nan" -> "NaN"
      [] v.t = "object" -> "[object Object]"
      [] OTHER -> v.t

HexDigits == "0123456789abcdefABCDEF"
IsHexDigit(c) == \E i \in 1..Len(HexDigits) : CharAt(HexDigits, i) = c

\* /^#([0-9a-fA-F]{3}|[0-9a-fA-F]{6})$/.test(str)
IsHexColor(str) ==
    /\ Len(str) \in {4, 7}
    /\ CharAt(str, 1) = "#"
    /\ \A i \in 2..Len(str) : IsHexDigit(CharAt(str, i))

(***************************************************************************)
(* applyToolCalls: the cases of the switch                                 *)
(***************************************************************************)
MissingView == "Missing azimuth or elevation for camera control."
MissingAnnotation == "Both title and description are required."
NotRecognised == "Tool not recognised by the renderer."

\* case 'set_heart_view' / 'set_brain_view' / 'set_skeleton_view'
SetViewCase(name, args) ==
    LET azimuth == IF IsFiniteNumber(args.azimuth) THEN args.azimuth ELSE Null
        elevation == IF IsFiniteNumber(args.elevation) THEN args.elevation ELSE Null
        distance == IF IsFiniteNumber(args.distance) THEN args.distance ELSE Undefined
    IN  IF azimuth = Null \/ elevation = Null
        THEN Returned(ErrorResult(name, MissingView), <<>>)
        ELSE Returned(
                 ToolResult(name, "success",
                     "Adjusted camera to azimuth " \o ToFixed1(azimuth)
                         \o ", elevation " \o ToFixed1(elevation)
                         \o (IF Truthy(distance) THEN ", distance " \o ToFixed2(distance)
                             ELSE "")
                         \o ".",
                     [NoDetail EXCEPT !.azimuth = azimuth, !.elevation = elevation,
                                      !.distance = IF Truthy(distance) THEN distance
                                                   ELSE Undefined]),
                 <<SetView(azimuth, elevation, distance)>>)

\* a highlight case that stores and echoes whatever colour text was supplied
HighlightCase_EchoesInput(domain, name, args) ==
    LET resolved == ResolverOf(domain, args.region)
        entry == RegionTable(domain)[resolved.index]
        warning == "Unknown " \o domain \o " region: "
                       \o (IF Nullish(args.region) THEN "unspecified" ELSE ToText(args.region))
                       \o "."
        colorInput == IF args.color.t = "string" THEN Trim(args.color.s) ELSE ""
        highlightColor == IF colorInput # "" THEN colorInput ELSE entry.color
        rawComment == IF args.comment.t = "string" THEN args.comment.s
                      ELSE IF args.detail.t = "string" THEN args.detail.s
                      ELSE ""
        highlightComment == Trim(rawComment)
    IN  IF resolved.threw THEN Raised
        ELSE IF resolved.index = 0 THEN Returned(ErrorResult(name, warning), <<>>)
        ELSE Returned(
                 ToolResult(name, "success", "Highlighted " \o entry.label \o ".",
                     [NoDetail EXCEPT !.regionKey = Str(entry.key),
                                      !.regionLabel = Str(entry.label),
                                      !.color = Str(highlightColor),
                                      !.comment = IF highlightComment # ""
                                                  THEN Str(highlightComment) ELSE Undefined]),
                 << [Action("SET_HIGHLIGHT") EXCEPT !.highlight =
                        [set |-> TRUE, key |-> entry.key, color |-> Str(highlightColor),
                         label |-> entry.label, comment |-> highlightComment,
                         fileName |-> ""]] >>)

\* case 'highlight_heart_region' (heart viewer) / 'highlight_brain_region' (brain viewer)
HighlightCase(domain, name, args) ==
    LET resolved == ResolverOf(domain, args.region)
        entry == RegionTable(domain)[resolved.index]
        warning == "Unknown " \o domain \o " region: "
                       \o (IF Nullish(args.region) THEN "unspecified" ELSE ToText(args.region))
                       \o "."
        colorInput == IF args.color.t = "string" THEN Trim(args.color.s) ELSE ""
        highlightColor == IF IsHexColor(colorInput) THEN colorInput ELSE entry.color
        rawComment == IF args.comment.t = "string" THEN args.comment.s
                      ELSE IF args.detail.t = "string" THEN args.detail.s
                      ELSE ""
        highlightComment == Trim(rawComment)
    IN  IF resolved.threw THEN Raised
        ELSE IF resolved.index = 0 THEN Returned(ErrorResult(name, warning), <<>>)
        ELSE Returned(
                 ToolResult(name, "success", "Highlighted " \o entry.label \o ".",
                     [NoDetail EXCEPT !.regionKey = Str(entry.key),
                                      !.regionLabel = Str(entry.label),
                                      !.color = Str(highlightColor),
                                      !.comment = IF highlightComment # ""
                                                  THEN Str(highlightComment) ELSE Undefined]),
                 << [Action("SET_HIGHLIGHT") EXCEPT !.highlight =
                        [set |-> TRUE, key |-> entry.key, color |-> Str(highlightColor),
                         label |-> entry.label, comment |-> highlightComment,
                         fileName |-> ""]] >>)

\* case 'highlight_skeleton_region'
SkeletonHighlightCase(name, args) ==
    LET regionConfig == findRegionByName(args.region)
        entry == SKELETON_REGIONS[regionConfig.index]
        highlightColor == IF Truthy(args.color) THEN args.color ELSE Str(entry.color)
    IN  IF ~Truthy(args.region)
        THEN Returned(ErrorResult(name, "Missing required parameter: region."), <<>>)
        ELSE IF regionConfig.threw THEN Raised
        ELSE IF regionConfig.index = 0
        THEN Returned(ErrorResult(name,
                 "Unknown skeleton region: \"" \o ToText(args.region) \o "\"."), <<>>)
        ELSE Returned(
                 ToolResult(name, "success",
                     "Highlighting " \o entry.label \o " in " \o ToText(highlightColor) \o ".",
                     [NoDetail EXCEPT !.region = args.region, !.color = highlightColor]),
                 << [Action("HIGHLIGHT_REGION") EXCEPT !.highlight =
                        [set |-> TRUE, key |-> "", color |-> highlightColor, label |-> "",
                         comment |-> "", fileName |-> entry.fileName]] >>)

\* an annotate case that dispatches before it validates
AnnotateCase_DispatchesFirst(name, args) ==
    IF ~Truthy(args.title) \/ ~Truthy(args.description)
    THEN Returned(ErrorResult(name, MissingAnnotation),
             << [Action("SET_ANNOTATION") EXCEPT !.annotation =
                    [set |-> TRUE, title |-> args.title,
                     description |-> args.description]] >>)
    ELSE Returned(
             ToolResult(name, "success", "Annotation set: " \o ToText(args.title) \o ".",
                 [NoDetail EXCEPT !.title = args.title, !.description = args.description]),
             << [Action("SET_ANNOTATION") EXCEPT !.annotation =
                    [set |-> TRUE, title |-> args.title,
                     description |-> args.description]] >>)

\* case 'annotate_heart_focus' / 'annotate_brain_focus' / 'annotate_skeleton_focus'
AnnotateCase(name, args) ==
    IF ~Truthy(args.title) \/ ~Truthy(args.description)
    THEN Returned(ErrorResult(name, MissingAnnotation), <<>>)
    ELSE Returned(
             ToolResult(name, "success", "Annotation set: " \o ToText(args.title) \o ".",
                 [NoDetail EXCEPT !.title = args.title, !.description = args.description]),
             << [Action("SET_ANNOTATION") EXCEPT !.annotation =
                    [set |-> TRUE, title |-> args.title,
                     description |-> args.description]] >>)

\* case 'clear_highlighted_region' of the heart and brain viewers
ClearCase(name) ==
    Returned(ToolResult(name, "success", "Cleared highlighted region.",
                 [NoDetail EXCEPT !.text = "Cleared highlighted region."]),
             <<Action("CLEAR_HIGHLIGHT")>>)

\* case 'clear_highlighted_region' of the skeleton viewer
SkeletonClearCase(name) ==
    Returned(ToolResult(name, "success",
                 "Cleared any active annotations and highlights for the skeleton.",
                 [NoDetail EXCEPT !.text = "Annotations and highlights cleared."]),
             <<Action("SET_ANNOTATION"), Action("HIGHLIGHT_REGION")>>)

\* case 'toggle_auto_rotation' of the combined viewer (App.jsx)
AppToggleCase(name, args) ==
    IF args.enabled.t # "boolean"
    THEN Returned(ErrorResult(name, "The enabled flag must be provided."), <<>>)
    ELSE Returned(
             ToolResult(name, "success",
                 IF args.enabled.b THEN "Auto-rotation enabled." ELSE "Auto-rotation paused.",
                 [NoDetail EXCEPT !.enabled = args.enabled]),
             <<[Action("SET_AUTO_ROTATE") EXCEPT !.flag = args.enabled]>>)

\* case 'highlight_heart_region' of the combined viewer: the payload is
\* { key, detail: args.detail ?? '' }, the detail held as the text it renders as
AppHighlightCase(name, args) ==
    LET resolved == resolveHeartRegionName(args.region)
        entry == HEART_REGIONS[resolved.index]
        warning == "Unknown heart region: "
                       \o (IF Nullish(args.region) THEN "unspecified" ELSE ToText(args.region))
                       \o "."
    IN  IF resolved.threw THEN Raised
        ELSE IF resolved.index = 0 THEN Returned(ErrorResult(name, warning), <<>>)
        ELSE Returned(
                 ToolResult(name, "success", "Highlighted " \o entry.label \o ".",
                     [NoDetail EXCEPT !.region = Str(entry.label),
                                      !.comment = IF Truthy(args.detail) THEN args.detail
                                                  ELSE Undefined]),
                 << [Action("SET_HIGHLIGHT") EXCEPT !.highlight =
                        [set |-> TRUE, key |-> entry.key, color |-> Undefined,
                         label |-> "",
                         comment |-> IF Nullish(args.detail) THEN "" ELSE ToText(args.detail),
                         fileName |-> ""]] >>)

\* case 'clear_highlighted_region' of the combined viewer
AppClearCase(name) ==
    Returned(ToolResult(name, "success", "Cleared highlighted region.",
                 [NoDetail EXCEPT !.text = "Cleared highlighted region."]),
             <<Action("CLEAR_HIGHLIGHT"), Action("SET_ANNOTATION")>>)

\* case 'toggle_auto_rotation' of the brain viewer
BrainToggleCase(name, args) ==
    IF args.enabled.t # "boolean"
    THEN Returned(ErrorResult(name, "The enabled flag must be provided."), <<>>)
    ELSE Returned(
             ToolResult(name, "success",
                 "Auto-rotation is disabled for manual exploration of the brain.",
                 [NoDetail EXCEPT !.enabled = Bool(FALSE)]),
             <<[Action("SET_AUTO_ROTATE") EXCEPT !.flag = args.enabled]>>)

\* case 'toggle_auto_rotation' of the skeleton viewer
SkeletonToggleCase(name) ==
    Returned(ToolResult(name, "success",
                 "Auto-rotation is disabled for precise manual inspection.",
                 [NoDetail EXCEPT !.enabled = Bool(FALSE)]),
             <<>>)

\* default
DefaultCase(name) == Returned(ErrorResult(name, NotRecognised), <<>>)

\* case 'highlight_heart_region' of the brain and skeleton viewers
ForeignHighlightCase(domain, name) ==
    Returned(ErrorResult(name,
                 IF domain = "brain"
                 THEN "Heart highlighting is not available in the brain viewer."
                 ELSE "Heart highlighting is not available in skeleton view."),
             <<>>)

(***************************************************************************)
(* applyToolCalls                                                          *)
(***************************************************************************)
\* the switch of the heart viewer
HeartSwitch(name, args) ==
    CASE name = "set_heart_view" -> SetViewCase(name, args)
      [] name = "highlight_heart_region" -> HighlightCase("heart", name, args)
      [] name = "clear_highlighted_region" -> ClearCase(name)
      [] name = "annotate_heart_focus" -> AnnotateCase(name, args)
      [] OTHER -> DefaultCase(name)

\* the switch of the brain viewer
BrainSwitch(name, args) ==
    CASE name \in {"set_heart_view", "set_brain_view"} -> SetViewCase(name, args)
      [] name = "highlight_brain_region" -> HighlightCase("brain", name, args)
      [] name = "clear_highlighted_region" -> ClearCase(name)
      [] name = "toggle_auto_rotation" -> BrainToggleCase(name, args)
      [] name = "highlight_heart_region" -> ForeignHighlightCase("brain", name)
      [] name \in {"annotate_heart_focus", "annotate_brain_focus"} -> AnnotateCase(name, args)
      [] OTHER -> DefaultCase(name)

\* the switch of the skeleton viewer
SkeletonSwitch(name, args) ==
    CASE name \in {"set_skeleton_view", "set_brain_view", "set_heart_view"} ->
            SetViewCase(name, args)
      [] name \in {"annotate_skeleton_focus", "annotate_heart_focus"} ->
            AnnotateCase(name, args)
      [] name = "clear_highlighted_region" -> SkeletonClearCase(name)
      [] name = "highlight_skeleton_region" -> SkeletonHighlightCase(name, args)
      [] name = "highlight_heart_region" -> ForeignHighlightCase("skeleton", name)
      [] name = "toggle_auto_rotation" -> SkeletonToggleCase(name)
      [] OTHER -> DefaultCase(name)

\* the heart viewer of Root.jsx: const { name, arguments: args = {} } = tool,
\* then the same switch; with arguments null every case that reads a field of
\* args is a TypeError
UnparsedHeartOne(tool) ==
    IF tool.arguments.form = "null"
          /\ tool.name \in {"set_heart_view", "highlight_heart_region", "annotate_heart_focus"}
    THEN Raised
    ELSE HeartSwitch(tool.name, ReadUnparsed(tool.arguments))

\* the switch of the combined viewer (App.jsx)
AppSwitch(name, args) ==
    CASE name = "set_heart_view" -> SetViewCase(name, args)
      [] name = "toggle_auto_rotation" -> AppToggleCase(name, args)
      [] name = "highlight_heart_region" -> AppHighlightCase(name, args)
      [] name = "clear_highlighted_region" -> AppClearCase(name)
      [] name = "annotate_heart_focus" -> AnnotateCase(name, args)
      [] OTHER -> DefaultCase(name)

\* the combined viewer does not parse the arguments either
AppOne(tool) ==
    IF tool.arguments.form = "null"
          /\ tool.name \in {"set_heart_view", "toggle_auto_rotation",
                             "highlight_heart_region", "annotate_heart_focus"}
    THEN Raised
    ELSE AppSwitch(tool.name, ReadUnparsed(tool.arguments))

\* the switch of the earlier brain viewer (part_007)
LegacyBrainSwitch(name, args) ==
    CASE name \in {"set_heart_view", "set_brain_view"} -> SetViewCase(name, args)
      [] name = "toggle_auto_rotation" -> BrainToggleCase(name, args)
      [] name = "highlight_heart_region" ->
            Returned(ErrorResult(name,
                "Brain highlighting is not available in this viewer yet."), <<>>)
      [] name = "clear_highlighted_region" ->
            Returned(ToolResult(name, "success", "No highlight active for the brain model.",
                         [NoDetail EXCEPT !.text = "No highlight active for the brain model."]),
                     <<>>)
      [] name = "annotate_heart_focus" -> AnnotateCase(name, args)
      [] OTHER -> DefaultCase(name)

\* the earlier brain viewer does not parse the arguments either
LegacyBrainOne(tool) ==
    IF tool.arguments.form = "null"
          /\ tool.name \in {"set_heart_view", "set_brain_view", "toggle_auto_rotation",
                             "annotate_heart_focus"}
    THEN Raised
    ELSE LegacyBrainSwitch(tool.name, ReadUnparsed(tool.arguments))

\* the body of toolCalls.forEach for one tool call
ApplyOne(domain, tool) ==
    LET args == parseToolArguments(tool.arguments)
    IN  CASE domain = "heart" -> HeartSwitch(tool.name, args)
          [] domain = "brain" -> BrainSwitch(tool.name, args)
          [] domain = "heart_unparsed" -> UnparsedHeartOne(tool)
          [] domain = "app" -> AppOne(tool)
          [] domain = "brain_legacy" -> LegacyBrainOne(tool)
          [] OTHER -> SkeletonSwitch(tool.name, args)

\* a run of applyToolCalls: the results pushed, the states after each call,
\* and whether the loop was left by an exception
StartRun(state) == [results |-> <<>>, log |-> <<state>>, threw |-> FALSE]

RECURSIVE RunCalls(_, _, _)
RunCalls(domain, calls, run) ==
    IF Len(calls) = 0 THEN run
    ELSE LET one == ApplyOne(domain, Head(calls))
         IN  IF one.threw THEN [run EXCEPT !.threw = TRUE]
             ELSE RunCalls(domain, Tail(calls),
                      [run EXCEPT !.results = Append(run.results, one.result),
                                  !.log = Append(run.log,
                                      ReduceAll(domain, run.log[Len(run.log)], one.actions))])

applyToolCalls(domain, state, calls) == RunCalls(domain, calls, StartRun(state))

(***************************************************************************)
(* Inputs of applyToolCalls                                                *)
(***************************************************************************)
\* the organ a viewer shows
Organ(domain) ==
    CASE domain \in {"heart_unparsed", "app"} -> "heart"
      [] domain = "brain_legacy" -> "brain"
      [] OTHER -> domain

ViewTool(domain) == "set_" \o domain \o "_view"
HighlightTool(domain) == "highlight_" \o domain \o "_region"
AnnotateTool(domain) == "annotate_" \o domain \o "_focus"

KnownRegion(domain) ==
    CASE domain = "heart" -> "Left-Ventricle"
      [] domain = "brain" -> "brain_stem"
      [] OTHER -> "the left femur"

ObjectArgs(fields) == RawArguments("object", fields)

ToolCallsOf(domain) ==
    { ToolCall(ViewTool(domain),
          ObjectArgs([NoArgs EXCEPT !.azimuth = Tenths(10), !.elevation = Tenths(5)])),
      ToolCall(ViewTool(domain),
          ObjectArgs([NoArgs EXCEPT !.azimuth = Tenths(10)])),
      ToolCall(ViewTool(domain),
          JsonText(<<Member("azimuth", Num(0)), Member("elevation", Num(-45)),
                     Member("distance", Tenths(2)), Member("speed", Num(1)),
                     Member("azimuth", Tenths(30))>>)),
      ToolCall(ViewTool(domain), RawArguments("null", NoArgs)),
      ToolCall(HighlightTool(domain),
          ObjectArgs([NoArgs EXCEPT !.region = Str(KnownRegion(domain)),
                                    !.color = Str("not-a-color")])),
      ToolCall(HighlightTool(domain),
          ObjectArgs([NoArgs EXCEPT !.region = Str(KnownRegion(domain)),
                                    !.color = Str(" #0F0 "), !.detail = Str(" look ")])),
      ToolCall(HighlightTool(domain),
          ObjectArgs([NoArgs EXCEPT !.region = Str(KnownRegion(domain)),
                                    !.comment = Str("note")])),
      ToolCall(HighlightTool(domain),
          ObjectArgs([NoArgs EXCEPT !.region = Str(KnownRegion(domain)),
                                    !.color = Str("#A1b2C3")])),
      ToolCall(HighlightTool(domain),
          ObjectArgs([NoArgs EXCEPT !.region = Str(KnownRegion(domain)),
                                    !.color = Num(5)])),
      ToolCall(HighlightTool(domain),
          ObjectArgs([NoArgs EXCEPT !.region = Str("pancreas")])),
      ToolCall(HighlightTool(domain),
          ObjectArgs([NoArgs EXCEPT !.region = Num(5)])),
      ToolCall("clear_highlighted_region", RawArguments("undefined", NoArgs)),
      ToolCall(AnnotateTool(domain),
          ObjectArgs([NoArgs EXCEPT !.title = Str("Apex"), !.description = Str("Tip")])),
      ToolCall(AnnotateTool(domain),
          ObjectArgs([NoArgs EXCEPT !.title = Str("Apex")])),
      ToolCall("toggle_auto_rotation",
          ObjectArgs([NoArgs EXCEPT !.enabled = Bool(TRUE)])),
      ToolCall("toggle_auto_rotation",
          ObjectArgs([NoArgs EXCEPT !.enabled = Bool(FALSE)])),
      ToolCall("toggle_auto_rotation",
          ObjectArgs([NoArgs EXCEPT !.enabled = Str("true")])),
      ToolCall("toggle_auto_rotation", ObjectArgs(NoArgs)),
      ToolCall("launch_rocket", RawArguments("badtext", NoArgs)),
      ToolCall(ViewTool(domain),
          RawArguments("badtext", [NoArgs EXCEPT !.azimuth = Tenths(10),
                                                 !.elevation = Tenths(5)])),
      ToolCall(ViewTool(domain), RawArguments("scalartext", NoArgs)),
      ToolCall("clear_highlighted_region", RawArguments("badtext", NoArgs)),
      ToolCall(ViewTool(domain),
          ObjectArgs([NoArgs EXCEPT !.azimuth = Tenths(10), !.elevation = Tenths(5),
                                    !.distance = Num(0)])) }

ToolBatches(domain) == SeqsUpTo(ToolCallsOf(Organ(domain)), MaxCalls)

(***************************************************************************)
(* The viewer: one applyToolCalls call from a state the viewer can be in   *)
(***************************************************************************)
\* executionResults = applyToolCalls(toolCalls); React then reduces the
\* dispatched actions in order
ApplyToolCalls(calls) ==
    /\ turns = 0
    /\ \E run \in {applyToolCalls(toolDomain, controllerState, calls)} :
           /\ toolResults' = IF run.threw THEN <<>> ELSE run.results
           /\ toolThrew' = run.threw
           /\ resultsPushed' = run.results
           /\ stateLog' = run.log
           /\ controllerState' = run.log[Len(run.log)]
    /\ toolCalls' = calls
    /\ turns' = turns + 1
    /\ UNCHANGED toolDomain

ToolsIdle ==
    /\ toolDomain = "heart"
    /\ controllerState = initialControllerState("heart")
    /\ toolCalls = <<>>
    /\ toolResults = <<>>
    /\ toolThrew = FALSE
    /\ resultsPushed = <<>>
    /\ stateLog = <<initialControllerState("heart")>>
    /\ turns = 0

\* the states a viewer can be in before a batch: its initial state, or the
\* state an earlier tool call left
EarlierStates(domain) ==
    {initialControllerState(domain)}
        \cup { LET run == applyToolCalls(domain, initialControllerState(domain), <<call>>)
               IN  run.log[Len(run.log)] : call \in ToolCallsOf(Organ(domain)) }

ToolDomains == {"heart", "brain", "skeleton", "heart_unparsed", "app", "brain_legacy"}

ToolsInit ==
    /\ toolDomain \in ToolDomains
    /\ controllerState \in EarlierStates(toolDomain)
    /\ toolCalls = <<>>
    /\ toolResults = <<>>
    /\ toolThrew = FALSE
    /\ resultsPushed = <<>>
    /\ stateLog = <<controllerState>>
    /\ turns = 0

ToolsNext ==
    /\ turns = 0
    /\ \E calls \in ToolBatches(toolDomain) : ApplyToolCalls(calls)

(***************************************************************************)
(* Calls of the exact-match resolvers on spelled and raw inputs            *)
(***************************************************************************)
\* names as lists of lower-case words
SpelledNames ==
    { <<"left", "atrium">>, <<"la">>, <<"left", "atrial", "chamber">>,
      <<"main", "pulmonary", "artery">>, <<"aorta">>, <<"pancreas">>,
      <<"brain", "stem">>, <<"stem">>, <<"right", "side">>,
      <<"left", "femur">>, <<"femur">>,
      <<"completely", "unknown", "name">> }

Separators == {" ", "_", "-", "  ", "_-", " - "}
Paddings == {<<"", "">>, <<" ", " ">>, <<"\t ", "\n">>}
Casings == {"lower", "upper", "title"}

RECURSIVE ToUpperCase(_)
ToUpperCase(str) ==
    IF Len(str) = 0 THEN ""
    ELSE UpperChar(CharAt(str, 1)) \o ToUpperCase(SubSeq(str, 2, Len(str)))

Cased(word, casing) ==
    CASE casing = "upper" -> ToUpperCase(word)
      [] casing = "title" -> UpperChar(CharAt(word, 1)) \o SubSeq(word, 2, Len(word))
      [] OTHER -> word

\* the words joined by the chosen separators, cased and padded
RECURSIVE Spell(_, _, _)
Spell(words, seps, casing) ==
    IF Len(words) = 0 THEN ""
    ELSE IF Len(words) = 1 THEN Cased(words[1], casing)
    ELSE Cased(words[1], casing) \o seps[1] \o Spell(Tail(words), Tail(seps), casing)

Spelling(words, seps, casing, pad) == pad[1] \o Spell(words, seps, casing) \o pad[2]

RawInputs ==
    { Str(""), Str("   "), Str("completely-unknown-name"), Str("_la_"), Str("-aorta"),
      Str("brain_stem"), Str("brainstem"), Str("atrium left"), Str("left"),
      Str("LA"), Str("Left Atrium"), Str("left_atrium") }

NonStringInputs == {Undefined, Null, Num(0), Num(5), NaN, Bool(TRUE), Bool(FALSE), Obj}

\* the keys and aliases written in a table
TableNames(table) ==
    {table[i].key : i \in 1..Len(table)}
        \cup UNION {{table[i].aliases[a] : a \in 1..Len(table[i].aliases)} :
                        i \in 1..Len(table)}

\* resOut before the resolver has been called
NotCalled == [threw |-> FALSE, index |-> -1]

\* the resolver is called once, on the input drawn by the initial state
ResolveCall ==
    /\ resOut = NotCalled
    /\ resOut' = ResolverOf(resDomain, resInput)
    /\ UNCHANGED <<resDomain, resInput, resWords>>

ResolveIdle ==
    /\ resDomain = "heart"
    /\ resInput = Undefined
    /\ resWords = <<>>
    /\ resOut = Resolved(0)

ResolveInit ==
    /\ resDomain \in {"heart", "brain", "skeleton"}
    /\ resOut = NotCalled
    /\ \/ \E words \in SpelledNames, seps \in [1..2 -> Separators],
             casing \in Casings, pad \in Paddings :
             /\ resWords = words
             /\ resInput = Str(Spelling(words, seps, casing, pad))
       \/ /\ resWords = <<>>
          /\ resInput \in RawInputs \cup NonStringInputs
       \/ /\ resWords = <<>>
          /\ resInput \in {Str(name) : name \in TableNames(RegionTable(resDomain))}

ResolveNext == ResolveCall

(***************************************************************************)
(* A reducer applied to a state and an action                              *)
(***************************************************************************)
ReducerDomains == {"heart", "brain", "skeleton", "app"}

SomeHighlight ==
    [set |-> TRUE, key |-> "aorta", color |-> Str("#ff1493"), label |-> "Aorta",
     comment |-> "", fileName |-> ""]

SomeAnnotation == [set |-> TRUE, title |-> Str("Apex"), description |-> Str("Tip")]

\* states a viewer can be in: its initial state, or a state left by earlier
\* SET_VIEW, highlight, annotation and auto-rotation actions
ControllerStatesOf(domain) ==
    { [s EXCEPT !.view = v, !.highlightRegion = h, !.annotation = a] :
         s \in (IF domain = "app"
                THEN {[initialControllerState(domain) EXCEPT !.autoRotate = r] :
                         r \in BOOLEAN}
                ELSE {initialControllerState(domain)}),
         v \in {initialControllerState(domain).view,
                [azimuth |-> Tenths(10), elevation |-> Tenths(20), distance |-> Tenths(3)]},
         h \in {NoHighlight, SomeHighlight},
         a \in {NoAnnotation, SomeAnnotation} }

\* the actions the dispatchers build, and one of an unknown type; a SET_VIEW
\* payload may lack any of its fields or carry a distance that is not finite
ReducerActions ==
    { SetView(az, el, di) : az \in {Undefined, Null, Tenths(10), Tenths(-45)},
                            el \in {Undefined, Tenths(5)},
                            di \in {Undefined, NaN, Str("3"), Num(25)} }
    \cup { [Action("SET_AUTO_ROTATE") EXCEPT !.flag = f] :
              f \in {Bool(TRUE), Bool(FALSE), Undefined, Str("false")} }
    \cup { [Action(t) EXCEPT !.highlight = SomeHighlight] :
              t \in {"SET_HIGHLIGHT", "HIGHLIGHT_REGION"} }
    \cup { [Action("HIGHLIGHT_REGION") EXCEPT !.highlight = NoHighlight] }
    \cup { [Action("SET_ANNOTATION") EXCEPT !.annotation = a] :
              a \in {NoAnnotation, SomeAnnotation} }
    \cup { Action("CLEAR_HIGHLIGHT"), Action("RESET_EVERYTHING") }

\* dispatch(redAction): the next state is controllerReducer(state, action)
Dispatch ==
    /\ Len(redStates) <= MaxDispatch
    /\ redStates' = Append(redStates,
                        controllerReducer(redDomain, redStates[Len(redStates)], redAction))
    /\ UNCHANGED <<redDomain, redAction>>

ReduceIdle ==
    /\ redDomain = "heart"
    /\ redAction = Action("CLEAR_HIGHLIGHT")
    /\ redStates = <<initialControllerState("heart")>>

ReduceInit ==
    /\ redDomain \in ReducerDomains
    /\ redAction \in ReducerActions
    /\ \E s \in ControllerStatesOf(redDomain) : redStates = <<s>>

ReduceNext == Dispatch

(***************************************************************************)
(* handleSendMessage of the heart and brain viewers                        *)
(***************************************************************************)
\* what a request comes back with: nothing usable (fetch rejects, or the
\* body is not JSON), or a payload with response.ok, agentSteps and toolCalls
NoResponse == [kind |-> "none", ok |-> FALSE, agentSteps |-> NotAnArray, toolCalls |-> <<>>]
Failed == [kind |-> "failed", ok |-> FALSE, agentSteps |-> NotAnArray, toolCalls |-> <<>>]
Payload(ok, agentSteps, calls) ==
    [kind |-> "payload", ok |-> ok, agentSteps |-> agentSteps, toolCalls |-> calls]

MoveCamera(domain) ==
    ToolCall(ViewTool(domain),
        ObjectArgs([NoArgs EXCEPT !.azimuth = Tenths(10), !.elevation = Tenths(5)]))

\* a highlight call on which the resolver raises a TypeError
BadRegion(domain) ==
    ToolCall(HighlightTool(domain), ObjectArgs([NoArgs EXCEPT !.region = Num(5)]))

TurnResponses(domain) ==
    { Failed,
      Payload(FALSE, NotAnArray, <<>>),
      Payload(FALSE, ArrayOf(<<DispatchSent>>), <<MoveCamera(domain)>>),
      Payload(TRUE, ArrayOf(<<>>), <<>>),
      Payload(TRUE, ArrayOf(<<DispatchSent>>), <<MoveCamera(domain)>>),
      Payload(TRUE, ArrayOf(<<Malformed>>), <<MoveCamera(domain), BadRegion(domain)>>) }

LogEntry(turn, op, status) == [turn |-> turn, op |-> op, status |-> status]

\* if (Array.isArray(payload.agentSteps) && payload.agentSteps.length)
UpdatesTrace(response) ==
    /\ response.kind = "payload"
    /\ response.agentSteps.array
    /\ Len(response.agentSteps.items) > 0

\* a handler that applies the tool calls before it looks at response.ok
AppliesTools_BeforeOkTest(response) == response.kind = "payload"

\* if (!response.ok) throw ...: applyToolCalls is reached by ok responses only
AppliesTools(response) == response.kind = "payload" /\ response.ok

\* a handler that reports 'complete' although applyToolCalls raised
TurnOutcome_IgnoresToolFailure(response, run) ==
    IF response.kind = "payload" /\ response.ok THEN "complete" ELSE "error"

\* the status handed to markFinalStatus: 'complete' at the end of the try
\* block, 'error' in the catch block
TurnOutcome(response, run) ==
    IF response.kind = "payload" /\ response.ok /\ ~run.threw THEN "complete" ELSE "error"

FinalDetailOf(status) ==
    IF status = "complete" THEN ObjectWith("toolCallCount") ELSE ObjectWith("message")

\* handleSendMessage up to the first await: the guard, startTrace(),
\* setIsSending(true), fetch
SendMessage ==
    /\ ~closureSending
    /\ turnsStarted < MaxTurns
    /\ startTrace
    /\ isSending' = TRUE
    /\ turnsStarted' = turnsStarted + 1
    /\ outstanding' = outstanding \cup {turnsStarted + 1}
    /\ turnLog' = Append(turnLog, LogEntry(turnsStarted + 1, "startTrace", ""))
    /\ UNCHANGED <<closureSending, responses>>
    /\ UNCHANGED toolVars

\* handleSendMessage from the answer of the request to the end of finally;
\* nothing in it awaits, so it runs as one step
HandleResponse(turn, response) ==
    /\ turn \in outstanding
    /\ \E batch \in {IF UpdatesTrace(response)
                      THEN NormalisedList(response.agentSteps.items, now) ELSE <<>>},
          afterUpdate \in {IF UpdatesTrace(response)
                            THEN enqueueSteps(Refs, response.agentSteps, now, epoch, enqueued)
                            ELSE Refs},
          run \in {IF AppliesTools(response)
                    THEN applyToolCalls(toolDomain, controllerState, response.toolCalls)
                    ELSE StartRun(controllerState)} :
          \E status \in {TurnOutcome(response, run)} :
             /\ SetRefs(enqueueSteps(afterUpdate,
                             ArrayOf(<<FinalStep(status, FinalDetailOf(status), now)>>),
                             now, epoch, enqueued + Len(batch)))
             /\ enqueued' = enqueued + Len(batch) + 1
             /\ pushed' = pushed \cup {step.id : step \in Range(batch)} \cup {"rendering_reply"}
             /\ lastBatch' = ArrayOf(<<FinalStep(status, FinalDetailOf(status), now)>>)
             /\ IF AppliesTools(response)
                THEN /\ toolResults' = IF run.threw THEN <<>> ELSE run.results
                     /\ toolThrew' = run.threw
                     /\ resultsPushed' = run.results
                     /\ stateLog' = run.log
                     /\ controllerState' = run.log[Len(run.log)]
                     /\ toolCalls' = response.toolCalls
                     /\ turns' = turns + 1
                     /\ UNCHANGED toolDomain
                ELSE UNCHANGED toolVars
             /\ turnLog' = turnLog
                    \o (IF UpdatesTrace(response)
                        THEN <<LogEntry(turn, "updateFromServer", "")>> ELSE <<>>)
                    \o (IF AppliesTools(response)
                        THEN <<LogEntry(turn, "applyToolCalls",
                                        IF run.threw THEN "threw" ELSE "returned")>>
                        ELSE <<>>)
                    \o <<LogEntry(turn, "markFinalStatus", status)>>
    /\ now' = now + 1
    /\ lastOp' = "markFinalStatus"
    /\ fired' = 0
    /\ responses' = [responses EXCEPT ![turn] = response]
    /\ outstanding' = outstanding \ {turn}
    /\ isSending' = FALSE
    /\ UNCHANGED <<steps, epoch, discarded, staleApplied, applied>>
    /\ UNCHANGED <<closureSending, turnsStarted>>

\* the component renders again: handleSendMessage is rebuilt around the
\* current isSending
Render ==
    /\ closureSending # isSending
    /\ closureSending' = isSending
    /\ UNCHANGED <<isSending, outstanding, turnsStarted, responses, turnLog>>
    /\ UNCHANGED <<traceVars, toolVars>>

\* a timeout of the scheduler expires while the viewer waits
TurnTimerFire ==
    /\ \E t \in timers : TimerFire(t)
    /\ UNCHANGED <<toolVars, turnVars>>

TurnsIdle ==
    /\ isSending = FALSE
    /\ closureSending = FALSE
    /\ outstanding = {}
    /\ turnsStarted = 0
    /\ responses = [turn \in 1..MaxTurns |-> NoResponse]
    /\ turnLog = <<>>

TurnViewers == {"heart", "brain"}

\* a viewer that has just been mounted
ViewerInit ==
    /\ toolDomain \in TurnViewers
    /\ controllerState = initialControllerState(toolDomain)
    /\ toolCalls = <<>>
    /\ toolResults = <<>>
    /\ toolThrew = FALSE
    /\ resultsPushed = <<>>
    /\ stateLog = <<controllerState>>
    /\ turns = 0

TurnNext ==
    \/ SendMessage
    \/ \E turn \in outstanding : \E response \in TurnResponses(toolDomain) :
          HandleResponse(turn, response)
    \/ Render
    \/ TurnTimerFire

(***************************************************************************)
(* Specifications                                                          *)
(***************************************************************************)
\* the process-trace scheduler
Init == TraceInit /\ ResolveIdle /\ ToolsIdle /\ ReduceIdle /\ TurnsIdle

Next == TraceNext /\ UNCHANGED <<resolveVars, toolVars, reduceVars, turnVars>>

Spec == Init /\ [][Next]_vars

\* the scheduler in a host runtime that runs every timeout that is not cancelled
TimerFires ==
    /\ \E t \in timers : TimerFire(t)
    /\ UNCHANGED <<resolveVars, toolVars, reduceVars, turnVars>>

NextFair == Next /\ (now' # now => now <= MaxFairOps)

SpecFair == Init /\ [][NextFair]_vars /\ WF_vars(TimerFires)

\* the region resolvers
InitResolve == TraceInit /\ ResolveInit /\ ToolsIdle /\ ReduceIdle /\ TurnsIdle

NextResolve == ResolveNext /\ UNCHANGED <<traceVars, toolVars, reduceVars, turnVars>>

SpecResolve == InitResolve /\ [][NextResolve]_vars

\* the viewers' tool-call dispatchers
InitTools == TraceInit /\ ResolveIdle /\ ToolsInit /\ ReduceIdle /\ TurnsIdle

NextTools == ToolsNext /\ UNCHANGED <<traceVars, resolveVars, reduceVars, turnVars>>

SpecTools == InitTools /\ [][NextTools]_vars

\* the conversational turns of the heart and brain viewers
InitTurn == TraceInit /\ ResolveIdle /\ ViewerInit /\ ReduceIdle /\ TurnsIdle

NextTurn == TurnNext /\ UNCHANGED <<resolveVars, reduceVars>>

SpecTurn == InitTurn /\ [][NextTurn]_vars

\* the controller reducers
InitReduce == TraceInit /\ ResolveIdle /\ ToolsIdle /\ ReduceInit /\ TurnsIdle

NextReduce == ReduceNext /\ UNCHANGED <<traceVars, resolveVars, toolVars, turnVars>>

SpecReduce == InitReduce /\ [][NextReduce]_vars

(***************************************************************************)
(* Helpers of the properties                                               *)
(***************************************************************************)
\* the lower-case words of a string: maximal runs free of whitespace, '-' and '_'
RECURSIVE SplitWords(_, _)
SplitWords(str, word) ==
    IF Len(str) = 0 THEN (IF word = "" THEN <<>> ELSE <<word>>)
    ELSE IF IsSpace(CharAt(str, 1)) \/ IsDash(CharAt(str, 1))
         THEN (IF word = "" THEN <<>> ELSE <<word>>)
                  \o SplitWords(SubSeq(str, 2, Len(str)), "")
         ELSE SplitWords(SubSeq(str, 2, Len(str)), word \o LowerChar(CharAt(str, 1)))

\* the words separated by single spaces
RECURSIVE JoinWords(_)
JoinWords(words) ==
    IF Len(words) = 0 THEN ""
    ELSE IF Len(words) = 1 THEN words[1]
    ELSE words[1] \o " " \o JoinWords(Tail(words))

\* the actions dispatched by the calls of the latest batch whose result is a success
RECURSIVE ActionsOfSuccesses(_)
ActionsOfSuccesses(i) ==
    IF i > Len(toolCalls) \/ i > Len(toolResults) THEN <<>>
    ELSE (IF toolResults[i].status = "success"
          THEN ApplyOne(toolDomain, toolCalls[i]).actions
          ELSE <<>>) \o ActionsOfSuccesses(i + 1)

Visible(id) == \E i \in 1..Len(steps) : steps[i].id = id

\* idle, with every step pushed since the latest reset applied
Settled ==
    /\ animationQueue = <<>>
    /\ timers = {}
    /\ animationTimer = NoTimer
    /\ ~isAnimating
    /\ applied = enqueued

(***************************************************************************)
(* Properties                                                              *)
(***************************************************************************)

\* C1: applyToolCalls returns a list with exactly one result per call of the
\* batch, and result i carries the name of call i.
C1_OneResultPerCall ==
    turns > 0 =>
        /\ ~toolThrew
        /\ Len(toolResults) = Len(toolCalls)
        /\ \A i \in 1..Len(toolCalls) : toolResults[i].name = toolCalls[i].name

\* a heart batch of one highlight call whose region is the number 5: the loop is
\* left by the TypeError of input.trim and no list is returned
C1_FailingState ==
    /\ toolDomain = "heart"
    /\ Len(toolCalls) = 1
    /\ toolCalls[1].name = "highlight_heart_region"
    /\ toolCalls[1].arguments.fields.region = Num(5)
    /\ toolThrew
    /\ Len(toolResults) # Len(toolCalls)

\* C2: at most one animation timer is outstanding, and it is the one the
\* timer ref holds; no second timer is ever scheduled beside it.
C2_SingleFlight ==
    /\ Cardinality(timers) <= 1
    /\ \A t \in timers : t.handle = animationTimer

C2_Witness ==
    /\ Cardinality(timers) = 1
    /\ Len(animationQueue) > 0
    /\ lastOp \in {"updateFromServer", "markFinalStatus"}
    /\ fired > 0

\* C3: no step that was queued or in flight when startTrace or clearTrace was
\* called is applied afterwards: every step applied, in flight or queued was
\* enqueued after the latest reset.
C3_NoApplyAfterCancel ==
    /\ ~staleApplied
    /\ \A t \in timers : t.item.epoch = epoch
    /\ \A i \in 1..Len(animationQueue) : animationQueue[i].epoch = epoch

C3_Witness ==
    /\ lastOp = "startTrace"
    /\ discarded
    /\ fired > 0
    /\ Len(steps) > 0

\* C4: after clearTrace the visible list and the queue are empty and no timer
\* is outstanding, no timer callback runs before the next public operation,
\* and nothing has been reseeded.
C4_ClearedStaysEmpty ==
    lastOp = "clearTrace" =>
        /\ steps = <<>>
        /\ animationQueue = <<>>
        /\ timers = {}
        /\ animationTimer = NoTimer
        /\ ~isAnimating
        /\ fired = 0

C4_Witness ==
    /\ lastOp = "clearTrace"
    /\ discarded
    /\ now = 3

\* C5: between two resets the priority of the visible status of a step id
\* never decreases.
C5_StatusNeverRegresses ==
    [][epoch' = epoch =>
          \A i \in 1..Len(steps) : \A j \in 1..Len(steps') :
              steps'[j].id = steps[i].id =>
                  STATUS_PRIORITY(steps'[j].status) >= STATUS_PRIORITY(steps[i].status)]_vars

\* the pending update (timestamp 9) was merged into the completed step
C5_Witness ==
    \E i \in 1..Len(steps) :
        /\ steps[i].id = "dispatching_to_gemini"
        /\ steps[i].status = "complete"
        /\ steps[i].timestamp = 9

\* C6: a tool call whose result has status error dispatches nothing: the
\* controller state after the call is the state before it.
C6_ErrorCallsLeaveState ==
    \A i \in 1..Len(resultsPushed) :
        resultsPushed[i].status = "error" => stateLog[i + 1] = stateLog[i]

C6_Witness ==
    \E i \in 1..Len(resultsPushed) :
        /\ resultsPushed[i].status = "error"
        /\ toolCalls[i].arguments.fields.region = Str("pancreas")
        /\ stateLog[i] # initialControllerState(toolDomain)

\* C7: a failing call does not stop its batch: every call gets its result,
\* a call that is valid on its own succeeds, the unknown tool gets the
\* "not recognised" error, and the final state is the reducer folded over the
\* actions of the successful calls from the state before the batch.
C7_FailingCallsDoNotStopBatch ==
    turns > 0 =>
        /\ ~toolThrew
        /\ Len(toolResults) = Len(toolCalls)
        /\ \A i \in 1..Len(toolCalls) :
              /\ toolCalls[i].name = "launch_rocket" =>
                    /\ toolResults[i].status = "error"
                    /\ toolResults[i].message = "Tool not recognised by the renderer."
              /\ ApplyOne(toolDomain, toolCalls[i]).result.status = "success" =>
                    toolResults[i].status = "success"
        /\ controllerState = ReduceAll(toolDomain, stateLog[1], ActionsOfSuccesses(1))

\* the highlight call with a numeric region raises, and the valid camera move
\* that follows it in the batch is never applied
C7_FailingState ==
    /\ Len(toolCalls) = 2
    /\ toolCalls[1].arguments.fields.region = Num(5)
    /\ toolCalls[2].name = ViewTool(Organ(toolDomain))
    /\ ApplyOne(toolDomain, toolCalls[2]).result.status = "success"
    /\ toolThrew
    /\ controllerState = stateLog[1]
    /\ resultsPushed = <<>>

\* C8: a resolver call never raises, whatever the type of its argument.
C8_NeverRaises == ~resOut.threw

\* a resolver called with a truthy value that is not a string raises a TypeError
C8_FailingState ==
    /\ resOut.threw
    /\ resInput \in {Num(5), Bool(TRUE), Obj}

\* C9: the heart and brain resolvers return the first entry, in insertion
\* order, whose key or one of whose aliases equals the normalised input, and
\* null when there is none.
C9_FirstExactMatch ==
    (resOut # NotCalled /\ resInput.t = "string" /\ resDomain \in {"heart", "brain"}) =>
        LET n == JoinWords(SplitWords(resInput.s, ""))
            table == RegionTable(resDomain)
        IN  /\ ~resOut.threw
            /\ resOut.index =
                  Lowest({i \in 1..Len(table) :
                             \/ table[i].key = n
                             \/ \E a \in 1..Len(table[i].aliases) : table[i].aliases[a] = n})

C9_Witness ==
    /\ resOut # NotCalled
    /\ resDomain \in {"heart", "brain"}
    /\ resInput.t = "string"
    /\ resOut.index > 1
    /\ resInput.s # JoinWords(SplitWords(resInput.s, ""))

\* C10: in the heart and brain resolvers every spelling of a name (letter
\* case, padding, separators between the words) resolves like its plain
\* lower-case spelling; "Left Atrium", "left_atrium" and "LA" give 'left atrium'.
C10_SpellingInsensitive ==
    (resOut # NotCalled /\ resDomain \in {"heart", "brain"}) =>
        /\ resWords # <<>> => resOut = ResolverOf(resDomain, Str(JoinWords(resWords)))
        /\ (resDomain = "heart"
              /\ resInput \in {Str("Left Atrium"), Str("left_atrium"), Str("LA")}) =>
                 /\ resOut.index >= 1
                 /\ HEART_REGIONS[resOut.index].key = "left atrium"

C10_Witness ==
    /\ resOut # NotCalled
    /\ resDomain = "heart"
    /\ resWords = <<"left", "atrium">>
    /\ resInput.s # "left atrium"
    /\ resOut.index = 1

\* C11: SET_VIEW replaces only the fields its payload carries: a nullish
\* azimuth or elevation keeps the current value, a distance that is not a
\* finite number keeps the current distance; highlightRegion and annotation
\* are unchanged and the state before the dispatch is still what it was.
C11_SetViewKeepsAbsentFields ==
    (redAction.type = "SET_VIEW" /\ Len(redStates) >= 2) =>
        LET before == redStates[1]
            after == redStates[2]
        IN  /\ after.view.azimuth =
                  (IF redAction.azimuth \in {Undefined, Null} THEN before.view.azimuth
                   ELSE redAction.azimuth)
            /\ after.view.elevation =
                  (IF redAction.elevation \in {Undefined, Null} THEN before.view.elevation
                   ELSE redAction.elevation)
            /\ after.view.distance =
                  (IF redAction.distance.t = "number" THEN redAction.distance
                   ELSE before.view.distance)
            /\ after.highlightRegion = before.highlightRegion
            /\ after.annotation = before.annotation
            /\ before \in ControllerStatesOf(redDomain)

\* SET_VIEW{azimuth:10} on a state with elevation 20 and distance 3, the
\* highlight and the annotation set
C11_Witness ==
    /\ Len(redStates) >= 2
    /\ redAction = SetView(Tenths(10), Undefined, Undefined)
    /\ redStates[1].view = [azimuth |-> Tenths(10), elevation |-> Tenths(20),
                            distance |-> Tenths(3)]
    /\ redStates[1].highlightRegion = SomeHighlight
    /\ redStates[2].view.distance = Tenths(3)
    /\ redStates[2].view.distance # initialControllerState(redDomain).view.distance

\* C12: every reducer is idempotent: dispatching the same action again
\* leaves the state reached by the first dispatch.
C12_ReducerIdempotent ==
    \A i \in 2..(Len(redStates) - 1) : redStates[i + 1] = redStates[i]

\* SET_AUTO_ROTATE(false) dispatched twice to the combined viewer while it rotates
C12_Witness ==
    /\ Len(redStates) >= 3
    /\ redDomain = "app"
    /\ redAction.type = "SET_AUTO_ROTATE"
    /\ redStates[1].autoRotate
    /\ ~redStates[2].autoRotate
    /\ ~redStates[3].autoRotate

\* C13: in the heart and brain viewers a successful highlight call stores
\* and echoes the supplied colour when its trimmed text is a 3- or 6-digit hex
\* colour, and the configured colour of the resolved region otherwise.
C13_HighlightColourValid ==
    toolDomain \in {"heart", "brain"} =>
        \A i \in 1..Len(resultsPushed) :
            (toolCalls[i].name = HighlightTool(toolDomain)
                /\ resultsPushed[i].status = "success") =>
                LET args == parseToolArguments(toolCalls[i].arguments)
                    supplied == IF args.color.t = "string" THEN Trim(args.color.s) ELSE ""
                    table == RegionTable(toolDomain)
                    configured ==
                        table[CHOOSE k \in 1..Len(table) :
                                  Str(table[k].key) = resultsPushed[i].detail.regionKey].color
                    expected == IF IsHexColor(supplied) THEN supplied ELSE configured
                IN  /\ resultsPushed[i].detail.color = Str(expected)
                    /\ stateLog[i + 1].highlightRegion.color = Str(expected)

\* "not-a-color" falls back to the configured colour, then " #0F0 " is used trimmed
C13_Witness ==
    /\ toolDomain = "heart"
    /\ Len(toolResults) = 2
    /\ toolCalls[1].arguments.fields.color = Str("not-a-color")
    /\ toolResults[1].detail.color = Str("#00ff00")
    /\ toolCalls[2].arguments.fields.color = Str(" #0F0 ")
    /\ toolResults[2].detail.color = Str("#0F0")
    /\ controllerState.highlightRegion.color = Str("#0F0")

\* C14: steps are applied in queue order: numbering the steps pushed since
\* the latest reset 1, 2, 3, ... in push order (a batch is pushed in its
\* canonically sorted order), the step in flight is the one after the last
\* applied, and the queue holds the following ones in increasing order.
C14_AppliedInQueueOrder ==
    /\ \A t \in timers : t.item.seq = applied + 1
    /\ \A i \in 1..Len(animationQueue) :
          animationQueue[i].seq = applied + Cardinality(timers) + i
    /\ enqueued = applied + Cardinality(timers) + Len(animationQueue)

\* the three seed steps and a step of a later call have been applied, and a
\* further step of that later call is in flight
C14_Witness ==
    /\ applied >= 4
    /\ timers # {}
    /\ lastOp \in {"updateFromServer", "markFinalStatus"}

\* C15: the visible list is always sorted: known stages in the canonical
\* six-stage order, every other id after all of them, and those other ids
\* ordered among themselves by label, alphabetically.
C15_VisibleListSorted ==
    \A i \in 1..Len(steps) : \A j \in (i + 1)..Len(steps) :
        /\ StepIndex(steps[i].id) <= StepIndex(steps[j].id)
        /\ (StepIndex(steps[i].id) = Len(STEP_ORDER)
               /\ StepIndex(steps[j].id) = Len(STEP_ORDER)) =>
              localeCompare(steps[i].label, steps[j].label) <= 0

\* rendering_reply arrived first, the dispatching stage and the two tool
\* steps later; the list shows them in canonical order
C15_Witness ==
    /\ Len(steps) = 4
    /\ steps[1].id = "dispatching_to_gemini"
    /\ steps[2].id = "rendering_reply"
    /\ steps[3].label = "Tool A"
    /\ steps[4].label = "Tool B"

\* C16: a step without an id is dropped and the rest of its batch is still
\* queued: an updateFromServer call adds to the queue (or the timer) exactly
\* the steps of its batch that have an id, and changes nothing when there is
\* none (only malformed steps, an empty batch, not an array). No queued,
\* in-flight or visible step lacks an id; a queued step always has a timer
\* ahead of it, and when no timer is left every pushed step has been applied.
C16_MalformedStepsDropped ==
    /\ [](/\ \A i \in 1..Len(steps) : steps[i].id # ""
          /\ \A i \in 1..Len(animationQueue) : animationQueue[i].step.id # ""
          /\ \A t \in timers : t.item.step.id # ""
          /\ animationQueue # <<>> => timers # {}
          /\ timers = {} => applied = enqueued)
    /\ [][(lastOp' = "updateFromServer" /\ now' # now) =>
            LET batch == lastBatch'.items
                withId == {i \in 1..Len(batch) : batch[i].id.t = "string" /\ batch[i].id.s # ""}
                pending == {animationQueue'[i].step.id : i \in 1..Len(animationQueue')}
                               \cup {t.item.step.id : t \in timers'}
            IN  /\ Len(animationQueue') + Cardinality(timers')
                      = Len(animationQueue) + Cardinality(timers) + Cardinality(withId)
                /\ \A i \in withId : batch[i].id.s \in pending
                /\ withId = {} =>
                      UNCHANGED <<steps, animationQueue, animationTimer, isAnimating, timers>>
          ]_vars

\* a batch of a step without an id and a valid step: the valid one is applied
C16_Witness ==
    /\ lastOp = "updateFromServer"
    /\ Len(lastBatch.items) = 2
    /\ lastBatch.items[1].id = Undefined
    /\ lastBatch.items[2].id = Str("tool_b")
    /\ timers = {}
    /\ \E i \in 1..Len(steps) : steps[i].id = "tool_b"

\* C17: a call whose arguments are the JSON text of an object gives the
\* result and the state change of the same call with the parsed object as
\* its arguments.
C17_JsonTextLikeObject ==
    \A i \in 1..Len(toolCalls) :
        toolCalls[i].arguments.form = "json" =>
            LET twin == ApplyOne(toolDomain,
                            ToolCall(toolCalls[i].name,
                                ObjectArgs(JSONparse(toolCalls[i].arguments.members, NoArgs))))
            IN  /\ ~twin.threw
                /\ i <= Len(resultsPushed) =>
                      /\ resultsPushed[i] = twin.result
                      /\ stateLog[i + 1] = ReduceAll(toolDomain, stateLog[i], twin.actions)

\* the heart viewer of Root.jsx answers the JSON text of a camera move with
\* "Missing azimuth or elevation" and leaves the camera where it was
C17_FailingState ==
    /\ toolDomain = "heart_unparsed"
    /\ Len(resultsPushed) = 1
    /\ toolCalls[1].name = "set_heart_view"
    /\ toolCalls[1].arguments.form = "json"
    /\ resultsPushed[1].status = "error"
    /\ resultsPushed[1].message = MissingView
    /\ controllerState = stateLog[1]
    /\ ApplyOne(toolDomain,
          ToolCall("set_heart_view",
              ObjectArgs(JSONparse(toolCalls[1].arguments.members, NoArgs)))).result.status
          = "success"

\* C18: every call whose result is a success dispatches exactly one reducer
\* action.
C18_OneDispatchPerSuccess ==
    \A i \in 1..Len(resultsPushed) :
        resultsPushed[i].status = "success" =>
            Len(ApplyOne(toolDomain, toolCalls[i]).actions) = 1

\* in the skeleton viewer clear_highlighted_region dispatches two actions and
\* toggle_auto_rotation none, both with a success result
C18_FailingState ==
    /\ toolDomain = "skeleton"
    /\ Len(resultsPushed) = 2
    /\ toolCalls[1].name = "clear_highlighted_region"
    /\ resultsPushed[1].status = "success"
    /\ Len(ApplyOne(toolDomain, toolCalls[1]).actions) = 2
    /\ toolCalls[2].name = "toggle_auto_rotation"
    /\ resultsPushed[2].status = "success"
    /\ ApplyOne(toolDomain, toolCalls[2]).actions = <<>>

\* C19 as stated: once the visible status of a step is complete or error, no
\* later update with the same id changes it before the next reset.
C19_CompleteAndErrorTerminal ==
    [][epoch' = epoch =>
          \A i \in 1..Len(steps) : \A j \in 1..Len(steps') :
              (steps'[j].id = steps[i].id /\ steps[i].status \in {"complete", "error"}) =>
                  steps'[j].status = steps[i].status]_vars

\* C19 amended: error is terminal, and a complete step changes only to
\* error: no update takes either back to pending or in-progress, and none
\* takes error to complete.
C19_ErrorTerminalCompleteUntilError ==
    [][epoch' = epoch =>
          \A i \in 1..Len(steps) : \A j \in 1..Len(steps') :
              steps'[j].id = steps[i].id =>
                  /\ steps[i].status = "error" => steps'[j].status = "error"
                  /\ steps[i].status = "complete" =>
                        steps'[j].status \in {"complete", "error"}]_vars

\* rendering_reply failed, then the complete update was merged into it: the
\* detail is the one of the complete call, the status is still error
C19_Witness ==
    \E i \in 1..Len(steps) :
        /\ steps[i].id = "rendering_reply"
        /\ steps[i].status = "error"
        /\ steps[i].detail = ObjectWith("toolCallCount")

\* C20: startTrace empties the visible list and seeds three steps; while no
\* other operation follows, each timer callback adds one of them, and when
\* no timer is left the scheduler is idle and the list is reading_prompt
\* (in-progress), augmenting_context (pending), dispatching_to_gemini
\* (pending), in that order; nothing can change it then.
C20_StartTraceSeedsThree ==
    lastOp = "startTrace" =>
        /\ Len(steps) = fired
        /\ Len(steps) + Cardinality(timers) + Len(animationQueue) = 3
        /\ fired < 3 => Cardinality(timers) = 1
        /\ timers = {} =>
              /\ ~isAnimating
              /\ animationTimer = NoTimer
              /\ animationQueue = <<>>
              /\ [i \in 1..Len(steps) |-> <<steps[i].id, steps[i].status>>]
                    = << <<"reading_prompt", "in-progress">>,
                         <<"augmenting_context", "pending">>,
                         <<"dispatching_to_gemini", "pending">> >>

\* a second startTrace threw away what the first turn left, and its three
\* seed steps have all been applied
C20_Witness ==
    /\ lastOp = "startTrace"
    /\ epoch >= 2
    /\ discarded
    /\ timers = {}
    /\ fired = 3
    /\ Len(steps) = 3

\* C21: under fair timer firing the scheduler always returns to idle (empty
\* queue, no timer, flag clear) with every step pushed since the latest
\* startTrace or clearTrace applied, and whenever it is idle the id of every
\* step pushed since then is in the visible list. This includes steps pushed
\* while another step is in flight.
C21_EnqueuedEventuallyApplied ==
    /\ [](Settled => \A id \in pushed : Visible(id))
    /\ ~Settled ~> Settled

\* rendering_reply was pushed while a seed step was in flight, and all four
\* steps have been applied
C21_Witness ==
    /\ Settled
    /\ applied = 4
    /\ lastOp = "markFinalStatus"
    /\ fired >= 3
    /\ Visible("rendering_reply")

\* C22: between operations the scheduler is idle (empty queue, no
\* outstanding timer, flag clear) or draining (exactly one outstanding timer,
\* the one the ref holds): a non-empty queue has an outstanding timer, and
\* the animating flag is set exactly when a timer is outstanding.
C22_IdleOrDraining ==
    /\ Cardinality(timers) <= 1
    /\ animationQueue # <<>> => timers # {}
    /\ isAnimating <=> timers # {}
    /\ \/ timers = {} /\ animationTimer = NoTimer
       \/ \E t \in timers : animationTimer = t.handle

\* draining with the queue just emptied, after a step was pushed while the
\* scheduler was draining
C22_Witness ==
    /\ timers # {}
    /\ animationQueue = <<>>
    /\ isAnimating
    /\ fired >= 1
    /\ applied >= 3
    /\ lastOp = "updateFromServer"

\* C23: when the callback merges a step into a visible step of the same id,
\* the visible step's detail becomes the incoming detail if that is not null
\* (an empty string included), whether or not the incoming status is taken,
\* and stays as it was if the incoming detail is null.
C23_DetailFollowsIncoming ==
    [][\A t \in timers :
          (fired' = fired + 1 /\ Visible(t.item.step.id)) =>
              LET incoming == t.item.step
                  before == steps[IndexOfId(steps, incoming.id)]
                  after == steps'[IndexOfId(steps', incoming.id)]
              IN  /\ Visible(incoming.id)'
                  /\ incoming.detail.t # "null" => after.detail = incoming.detail
                  /\ incoming.detail.t = "null" => after.detail = before.detail
      ]_vars

\* the dispatching stage is complete with an empty detail: a pending update
\* with detail "" met the complete step with detail "sent"
C23_Witness ==
    \E i \in 1..Len(steps) :
        /\ steps[i].id = "dispatching_to_gemini"
        /\ steps[i].status = "complete"
        /\ steps[i].detail = Str("")

\* C24: when the callback merges a step into a visible step of the same id,
\* the visible step keeps its timestamp if the incoming wire step carried
\* none, and takes the incoming timestamp if it carried one.
C24_TimestampKeptWhenAbsent ==
    [][\A t \in timers :
          (fired' = fired + 1 /\ Visible(t.item.step.id)) =>
              LET incoming == t.item.step
                  before == steps[IndexOfId(steps, incoming.id)]
                  after == steps'[IndexOfId(steps', incoming.id)]
              IN  /\ t.item.stamped => after.timestamp = before.timestamp
                  /\ ~t.item.stamped => after.timestamp = incoming.timestamp
      ]_vars

\* the dispatching stage was seeded by startTrace with the time of that
\* call; an update without a timestamp arrived with a later call, and the
\* visible step now shows the time of the later call
C24_FailingState ==
    /\ lastOp = "updateFromServer"
    /\ lastBatch = ArrayOf(<<DispatchSent>>)
    /\ DispatchSent.timestamp = 0
    /\ Len(steps) = 3
    /\ steps[1].timestamp = now - 2
    /\ steps[3].id = "dispatching_to_gemini"
    /\ steps[3].detail = Str("sent")
    /\ steps[3].timestamp = now - 1

\* C25: status normalisation maps the wire synonym 'started' to
\* 'in-progress' and an absent status to 'complete', and leaves every other
\* status as it is: right after an updateFromServer call each step of the
\* batch that has an id is queued or in flight with that status. Hence every
\* queued, in-flight and visible step has one of the statuses pending,
\* in-progress, complete, error, and never 'started'.
C25_StatusNormalised ==
    /\ (lastOp = "updateFromServer" /\ fired = 0) =>
          \A w \in {v \in Range(lastBatch.items) : StepHasId(v)} :
              \E item \in Range(animationQueue) \cup {t.item : t \in timers} :
                  /\ item.step.id = w.id.s
                  /\ item.step.status = CASE w.status = "started" -> "in-progress"
                                           [] w.status = "" -> "complete"
                                           [] OTHER -> w.status
    /\ \A step \in Range(steps) \cup {item.step : item \in Range(animationQueue)}
                     \cup {t.item.step : t \in timers} :
          step.status \in {"pending", "in-progress", "complete", "error"}

\* a step that arrived as 'started' is shown in progress, and one that
\* arrived without a status is shown complete
C25_Witness ==
    /\ \E i \in 1..Len(steps) : steps[i].id = "tool_b" /\ steps[i].status = "in-progress"
    /\ \E i \in 1..Len(steps) : steps[i].id = "tool_a" /\ steps[i].status = "complete"
    /\ \E w \in Range(lastBatch.items) : w.status \in {"started", ""}

\* the visible list has exactly one rendering_reply step, after every other
\* known stage, with a status of at least the priority of the given one and
\* with the given detail
FinalShown(final) ==
    /\ Cardinality({i \in 1..Len(steps) : steps[i].id = "rendering_reply"}) = 1
    /\ \E i \in 1..Len(steps) :
          /\ steps[i].id = "rendering_reply"
          /\ \A j \in 1..Len(steps) : StepIndex(steps[j].id) < Len(STEP_ORDER) => j <= i
          /\ STATUS_PRIORITY(steps[i].status) >= STATUS_PRIORITY(final.status)
          /\ ~Nullish(final.detail) => steps[i].detail = final.detail

\* C26: markFinalStatus(status, detail) pushes exactly one step, with id
\* rendering_reply; unless a startTrace or clearTrace follows, the visible
\* list eventually has exactly one rendering_reply step, last among the known
\* stages, whose status has at least the priority of the given status and
\* whose detail is the given detail.
C26_FinalStatusShown ==
    /\ [][(lastOp' = "markFinalStatus" /\ now' # now) =>
            /\ Len(animationQueue') + Cardinality(timers')
                  = Len(animationQueue) + Cardinality(timers) + 1
            /\ LET new == IF animationQueue' # <<>>
                           THEN animationQueue'[Len(animationQueue')]
                           ELSE CHOOSE item \in {t.item : t \in timers'} : TRUE
               IN  /\ new.step.id = "rendering_reply"
                   /\ new.seq = enqueued'
                   /\ enqueued' = enqueued + 1
          ]_vars
    /\ \A final \in FinalCalls :
          (/\ lastOp = "markFinalStatus"
           /\ fired = 0
           /\ lastBatch = ArrayOf(<<FinalStep(final.status, final.detail, now - 1)>>))
              ~> (lastOp \in {"startTrace", "clearTrace"} \/ FinalShown(final))

\* markFinalStatus('complete', detail) was called while a seed step was in
\* flight; the list now ends with the complete rendering_reply step
C26_Witness ==
    /\ lastOp = "markFinalStatus"
    /\ Len(steps) = 4
    /\ steps[4].id = "rendering_reply"
    /\ steps[4].status = "complete"
    /\ steps[4].detail = ObjectWith("toolCallCount")
    /\ FinalShown([status |-> "complete", detail |-> ObjectWith("toolCallCount")])

\* the viewers whose switch has a case for toggle_auto_rotation
TogglingViewers == {"brain", "skeleton", "app", "brain_legacy"}

\* the calls of the latest batch that are toggle_auto_rotation calls with a
\* result
ToggleCalls ==
    {i \in 1..Len(toolResults) :
        toolCalls[i].name = "toggle_auto_rotation" /\ toolCalls[i].arguments.form = "object"}

\* C27: in every viewer that recognises toggle_auto_rotation, a call whose
\* enabled argument is not a boolean gets the error result "The enabled flag
\* must be provided." and leaves the controller state as it was.
C27_ToggleNeedsBoolean ==
    toolDomain \in TogglingViewers =>
        \A i \in ToggleCalls :
            toolCalls[i].arguments.fields.enabled.t # "boolean" =>
                /\ toolResults[i].status = "error"
                /\ toolResults[i].message = "The enabled flag must be provided."
                /\ toolResults[i].detail.text = "The enabled flag must be provided."
                /\ stateLog[i + 1] = stateLog[i]

\* the skeleton viewer answers a toggle call whose enabled is the string
\* "true" with a success result
C27_FailingState ==
    /\ toolDomain = "skeleton"
    /\ \E i \in ToggleCalls :
          /\ toolCalls[i].arguments.fields.enabled = Str("true")
          /\ toolResults[i].status = "success"
          /\ toolResults[i].detail.enabled = Bool(FALSE)

\* C28: after a toggle_auto_rotation call that succeeds with enabled = b, the
\* controller state's autoRotate is b and the result's response.detail.enabled
\* is b.
C28_ToggleSetsAndEchoes ==
    \A i \in ToggleCalls :
        (toolResults[i].status = "success"
            /\ toolCalls[i].arguments.fields.enabled.t = "boolean") =>
                /\ "autoRotate" \in DOMAIN stateLog[i + 1]
                /\ stateLog[i + 1].autoRotate = toolCalls[i].arguments.fields.enabled.b
                /\ toolResults[i].detail.enabled = toolCalls[i].arguments.fields.enabled

\* the brain viewer answers enabled = true with a success result that says
\* enabled: false, and its state has no autoRotate
C28_FailingState ==
    /\ toolDomain = "brain"
    /\ \E i \in ToggleCalls :
          /\ toolCalls[i].arguments.fields.enabled = Bool(TRUE)
          /\ toolResults[i].status = "success"
          /\ toolResults[i].detail.enabled = Bool(FALSE)
          /\ "autoRotate" \notin DOMAIN stateLog[i + 1]

\* the viewers whose controller state has autoRotate
RotatingViewers == {"app", "brain_legacy"}

\* call i of the latest batch is a set-view call that succeeded
ViewSet(i) ==
    /\ toolCalls[i].name \in {"set_heart_view", "set_brain_view"}
    /\ toolResults[i].status = "success"

\* call i of the latest batch is a toggle call that succeeded with enabled = true
RotationEnabled(i) ==
    /\ toolCalls[i].name = "toggle_auto_rotation"
    /\ toolResults[i].status = "success"
    /\ ReadUnparsed(toolCalls[i].arguments).enabled = Bool(TRUE)

\* C29: in the viewers whose state tracks autoRotate, autoRotate is false
\* right after every successful set-view call, whatever it was before, and
\* stays false until a later successful toggle call with enabled = true.
C29_ViewStopsRotation ==
    toolDomain \in RotatingViewers =>
        \A i \in 1..Len(toolResults) :
            ViewSet(i) =>
                \A j \in i..Len(toolResults) :
                    (\A k \in (i + 1)..j : ~RotationEnabled(k)) => ~stateLog[j + 1].autoRotate

\* the model was rotating; a set-view call stopped it and the call after it
\* (not a toggle) left it stopped
C29_Witness ==
    /\ toolDomain \in RotatingViewers
    /\ Len(toolResults) = 2
    /\ stateLog[1].autoRotate
    /\ ViewSet(1)
    /\ toolCalls[2].name # "toggle_auto_rotation"
    /\ toolResults[2].status = "success"
    /\ ~stateLog[3].autoRotate

\* the calls of the latest batch that are successful skeleton highlights
SkeletonHighlights ==
    {i \in 1..Len(toolResults) :
        /\ toolDomain = "skeleton"
        /\ toolCalls[i].name = "highlight_skeleton_region"
        /\ toolResults[i].status = "success"}

\* C30: in the skeleton viewer a highlight call's color is used only if it
\* is a hex colour (#rgb or #rrggbb); otherwise the region's default colour
\* is used. The colour stored in highlightRegion and echoed in
\* response.detail.color is therefore always a valid hex colour.
C30_SkeletonColourValid ==
    \A i \in SkeletonHighlights :
        LET args == parseToolArguments(toolCalls[i].arguments)
            entry == SKELETON_REGIONS[findRegionByName(args.region).index]
            stored == stateLog[i + 1].highlightRegion.color
            expected == IF args.color.t = "string" /\ IsHexColor(args.color.s)
                        THEN args.color ELSE Str(entry.color)
        IN  /\ stored = expected
            /\ toolResults[i].detail.color = expected
            /\ stored.t = "string" /\ IsHexColor(stored.s)

\* the skeleton viewer stored and echoed the colour text "not-a-color"
C30_FailingState ==
    \E i \in SkeletonHighlights :
        /\ parseToolArguments(toolCalls[i].arguments).color = Str("not-a-color")
        /\ stateLog[i + 1].highlightRegion.color = Str("not-a-color")
        /\ toolResults[i].detail.color = Str("not-a-color")

\* C31: the skeleton resolver matches by containment in both directions: an
\* entry matches when one of its aliases appears inside the lower-cased
\* input or the input appears inside one of its aliases ("femur" resolves to
\* a femur entry); the first matching entry in insertion order is returned,
\* and null when none matches.
C31_ContainmentBothWays ==
    (resOut # NotCalled /\ resDomain = "skeleton" /\ resInput.t = "string") =>
        LET lowerName == ToLowerCase(resInput.s)
        IN  /\ resOut =
                  Resolved(Lowest({i \in 1..Len(SKELETON_REGIONS) :
                      \E a \in 1..Len(SKELETON_REGIONS[i].aliases) :
                          \/ Includes(lowerName, SKELETON_REGIONS[i].aliases[a])
                          \/ Includes(SKELETON_REGIONS[i].aliases[a], lowerName)}))
            /\ resInput = Str("femur") =>
                  /\ resOut.index >= 1
                  /\ Includes(SKELETON_REGIONS[resOut.index].key, "femur")

\* findRegionByName("femur") returned null although "femur" is inside the
\* alias "left femur"
C31_FailingState ==
    /\ resDomain = "skeleton"
    /\ resInput = Str("femur")
    /\ \E i \in 1..Len(SKELETON_REGIONS) : \E a \in 1..Len(SKELETON_REGIONS[i].aliases) :
          Includes(SKELETON_REGIONS[i].aliases[a], "femur")
    /\ resOut = Resolved(0)

\* the calls of the latest batch whose arguments are a string that is not
\* the JSON text of an object
UnreadableCalls ==
    {i \in 1..Len(toolCalls) : toolCalls[i].arguments.form \in {"badtext", "scalartext"}}

\* C32: a call whose arguments are a string that is not valid JSON, or the
\* JSON text of a value that is not an object, is processed like the same
\* call with arguments {} and does not raise: a camera move answers "Missing
\* azimuth or elevation for camera control." and leaves the state alone,
\* clearing the highlight still succeeds.
C32_UnreadableArgumentsAreEmpty ==
    /\ toolThrew => (Len(resultsPushed) + 1) \notin UnreadableCalls
    /\ \A i \in UnreadableCalls :
          i <= Len(resultsPushed) =>
             LET twin == ApplyOne(toolDomain, ToolCall(toolCalls[i].name, ObjectArgs(NoArgs)))
             IN  /\ ~twin.threw
                 /\ resultsPushed[i] = twin.result
                 /\ stateLog[i + 1] = ReduceAll(toolDomain, stateLog[i], twin.actions)
                 /\ toolCalls[i].name = ViewTool(Organ(toolDomain)) =>
                       /\ resultsPushed[i] = ErrorResult(toolCalls[i].name, MissingView)
                       /\ stateLog[i + 1] = stateLog[i]
                 /\ toolCalls[i].name = "clear_highlighted_region" =>
                       resultsPushed[i].status = "success"

\* a batch of a parsing viewer: a camera move whose arguments are not JSON
\* was refused, then the highlight was cleared by a call with such arguments
C32_Witness ==
    /\ toolDomain \in {"heart", "brain", "skeleton"}
    /\ Len(toolResults) = 2
    /\ toolCalls[1].name = ViewTool(toolDomain)
    /\ toolCalls[1].arguments.form = "badtext"
    /\ toolCalls[1].arguments.fields.azimuth # Undefined
    /\ toolResults[1].message = MissingView
    /\ toolCalls[2].name = "clear_highlighted_region"
    /\ toolCalls[2].arguments.form = "badtext"
    /\ toolResults[2].status = "success"
    /\ stateLog[1].highlightRegion # NoHighlight
    /\ controllerState.highlightRegion = NoHighlight

\* the calls of the latest batch that are successful camera moves
SuccessfulViews ==
    {i \in 1..Len(toolResults) :
        /\ toolCalls[i].name = ViewTool(Organ(toolDomain))
        /\ toolResults[i].status = "success"}

\* C33: after a successful set-view call whose distance argument is a finite
\* number d, 0 included, view.distance is d and response.detail.distance is
\* d; when the distance is absent, view.distance is unchanged and
\* response.detail has no distance field.
C33_DistanceStoredAndEchoed ==
    \A i \in SuccessfulViews :
        LET distance == parseToolArguments(toolCalls[i].arguments).distance
        IN  /\ IsFiniteNumber(distance) =>
                  /\ stateLog[i + 1].view.distance = distance
                  /\ toolResults[i].detail.distance = distance
            /\ distance = Undefined =>
                  /\ stateLog[i + 1].view.distance = stateLog[i].view.distance
                  /\ toolResults[i].detail.distance = Undefined

\* a camera move with distance 0 was stored, and its result carries no
\* distance
C33_FailingState ==
    \E i \in SuccessfulViews :
        /\ parseToolArguments(toolCalls[i].arguments).distance = Num(0)
        /\ stateLog[i].view.distance # Num(0)
        /\ stateLog[i + 1].view.distance = Num(0)
        /\ toolResults[i].detail.distance = Undefined

\* C35: no two steps of the visible list share an id: a timer callback whose
\* step's id is already visible updates that entry in place, keeping its id
\* and label, and the list keeps its length; a step with a new id adds one
\* entry.
C35_OneEntryPerId ==
    /\ [](\A i, j \in 1..Len(steps) : steps[i].id = steps[j].id => i = j)
    /\ [][fired' = fired + 1 =>
             \A t \in timers :
                 IF Visible(t.item.step.id)
                 THEN /\ Len(steps') = Len(steps)
                      /\ \A i \in 1..Len(steps) :
                            /\ steps'[i].id = steps[i].id
                            /\ steps'[i].label = steps[i].label
                 ELSE /\ Len(steps') = Len(steps) + 1
                      /\ \E i \in 1..Len(steps') : steps'[i] = t.item.step]_vars

\* the dispatching stage was seeded and then updated by the server: four
\* steps applied, three entries visible
C35_Witness ==
    /\ Len(steps) = 3
    /\ applied = 4
    /\ \E i \in 1..Len(steps) :
          /\ steps[i].id = "dispatching_to_gemini"
          /\ steps[i].status = "complete"

\* C36: the visible list changes only in a timer callback, which applies
\* the one step its timeout was scheduled with (the other entries stay, at
\* most one entry is added), or in startTrace and clearTrace, which empty
\* it; updateFromServer and markFinalStatus leave the list as it is.
C36_ListChangesOnlyInCallbacks ==
    [][/\ (now' # now /\ lastOp' \in {"updateFromServer", "markFinalStatus"}) =>
              steps' = steps
       /\ (now' # now /\ lastOp' \in {"startTrace", "clearTrace"}) => steps' = <<>>
       /\ fired' = fired + 1 =>
              \E t \in timers :
                  /\ t \notin timers'
                  /\ Len(steps') <= Len(steps) + 1
                  /\ \E i \in 1..Len(steps') : steps'[i].id = t.item.step.id
                  /\ \A i \in 1..Len(steps) :
                        steps[i].id # t.item.step.id => \E j \in 1..Len(steps') :
                                                            steps'[j] = steps[i]
       /\ steps' # steps =>
              \/ fired' = fired + 1
              \/ now' # now /\ lastOp' \in {"startTrace", "clearTrace"}]_vars

\* a batch of two steps was handed over; since the call one callback has
\* run and shown one step, and at least two steps still wait their turn
C36_Witness ==
    /\ lastOp = "updateFromServer"
    /\ lastBatch.array
    /\ Len(lastBatch.items) = 2
    /\ fired = 1
    /\ Len(steps) = 1
    /\ Len(animationQueue) + Cardinality(timers) >= 2

\* C39: every entry of the heart, brain and skeleton tables is reachable by
\* its own names: resolving an entry's key, or any alias listed for it,
\* returns that entry (no earlier entry of the table takes the name, also
\* under the substring matching of the skeleton resolver).
C39_OwnNamesResolve ==
    resOut # NotCalled =>
        \A i \in 1..Len(RegionTable(resDomain)) :
            LET entry == RegionTable(resDomain)[i]
            IN  (resInput.t = "string"
                   /\ \/ resInput.s = entry.key
                      \/ \E a \in 1..Len(entry.aliases) : resInput.s = entry.aliases[a]) =>
                    resOut = Resolved(i)

\* the last alias of the last skeleton entry resolved to that entry
C39_Witness ==
    /\ resDomain = "skeleton"
    /\ resInput = Str("right metatarsals")
    /\ resOut = Resolved(Len(SKELETON_REGIONS))
    /\ SKELETON_REGIONS[Len(SKELETON_REGIONS)].key = "right foot"

\* the scheduler operations a turn has called, in order
SchedulerCalls(turn) ==
    SelectSeq(turnLog, LAMBDA entry : entry.turn = turn /\ entry.op # "applyToolCalls")

\* the turn's applyToolCalls call returned
ToolsFinished(turn) ==
    \E i \in 1..Len(turnLog) : turnLog[i] = LogEntry(turn, "applyToolCalls", "returned")

\* the status a turn must close its trace with
ExpectedFinal(turn) ==
    IF responses[turn].kind = "payload" /\ responses[turn].ok /\ ToolsFinished(turn)
    THEN "complete" ELSE "error"

\* C34: in every turn of the heart and brain viewers the scheduler is called
\* in the order startTrace, at most one updateFromServer, markFinalStatus;
\* markFinalStatus is called exactly once per turn, with 'complete' when the
\* response was ok and applyToolCalls returned, with 'error' otherwise
\* (failed request, response not ok, exception in applyToolCalls).
C34_TurnCallOrder ==
    /\ [](\A turn \in 1..turnsStarted :
             LET calls == SchedulerCalls(turn)
                 ops == [i \in 1..Len(calls) |-> calls[i].op]
             IN  IF turn \in outstanding
                 THEN ops = <<"startTrace">>
                 ELSE /\ ops \in {<<"startTrace", "markFinalStatus">>,
                                  <<"startTrace", "updateFromServer", "markFinalStatus">>}
                      /\ calls[Len(calls)].status = ExpectedFinal(turn)
                      /\ (ops[2] = "updateFromServer") <=> UpdatesTrace(responses[turn]))
    /\ [][\A turn \in outstanding :
             turn \notin outstanding' =>
                /\ lastBatch'.items = <<FinalStep(ExpectedFinal(turn)',
                                                  FinalDetailOf(ExpectedFinal(turn)'), now)>>
                /\ ExpectedFinal(turn)' = "complete" <=>
                      /\ responses'[turn].kind = "payload"
                      /\ responses'[turn].ok
                      /\ turns' = turns + 1
                      /\ ~toolThrew'
                /\ enqueued' = enqueued + 1
                       + (IF UpdatesTrace(responses'[turn])
                          THEN Len(NormalisedList(responses'[turn].agentSteps.items, now))
                          ELSE 0)]_vars

\* a turn whose response was ok and carried agent steps, but whose tool
\* calls raised: startTrace, updateFromServer, markFinalStatus('error')
C34_Witness ==
    /\ turnsStarted >= 1
    /\ 1 \notin outstanding
    /\ responses[1].ok
    /\ UpdatesTrace(responses[1])
    /\ toolThrew
    /\ Len(SchedulerCalls(1)) = 3
    /\ SchedulerCalls(1)[3] = LogEntry(1, "markFinalStatus", "error")

\* the steps that wait: the one a timeout holds and those on the queue
WaitingItems == {t.item : t \in timers} \cup Range(animationQueue)

\* the turn's request failed, or its response was not ok
TurnFailed(turn) == responses[turn].kind = "failed" \/ ~responses[turn].ok

\* C37: when the response is not ok or the request fails, no tool call of
\* the turn is applied and the controller state is left as it was, while
\* the agentSteps a non-ok response carries are still queued, ahead of the
\* final 'error' step.
C37_FailedTurnLeavesView ==
    /\ [](\A turn \in (1..turnsStarted) \ outstanding :
             TurnFailed(turn) =>
                \A i \in 1..Len(turnLog) :
                    turnLog[i].turn = turn => turnLog[i].op # "applyToolCalls")
    /\ [][\A turn \in outstanding :
             (turn \notin outstanding' /\ TurnFailed(turn)') =>
                 LET batch == IF UpdatesTrace(responses'[turn])
                              THEN sortSteps(NormalisedList(responses'[turn].agentSteps.items,
                                                            now))
                              ELSE <<>>
                 IN  /\ controllerState' = controllerState
                     /\ UNCHANGED toolVars
                     /\ \A i \in 1..Len(batch) :
                           \E item \in WaitingItems' :
                               item.seq = enqueued + i /\ item.step = batch[i]
                     /\ \E item \in WaitingItems' :
                           /\ item.seq = enqueued + Len(batch) + 1
                           /\ item.step.id = "rendering_reply"
                           /\ item.step.status = "error"]_vars

\* the first turn's response was not ok and carried an agent step and a
\* camera move: the step and the final error are shown, the camera has not moved
C37_Witness ==
    /\ turnsStarted = 1
    /\ outstanding = {}
    /\ responses[1] = Payload(FALSE, ArrayOf(<<DispatchSent>>), <<MoveCamera(toolDomain)>>)
    /\ controllerState = initialControllerState(toolDomain)
    /\ turns = 0
    /\ \E i \in 1..Len(steps) :
          steps[i].id = "dispatching_to_gemini" /\ steps[i].detail = Str("sent")
    /\ \E i \in 1..Len(steps) :
          steps[i].id = "rendering_reply" /\ steps[i].status = "error"

\* the turn has called markFinalStatus before position i of the log
ClosedBefore(turn, i) ==
    \E j \in 1..(i - 1) : turnLog[j].turn = turn /\ turnLog[j].op = "markFinalStatus"

\* C38: at most one turn is in flight: handleSendMessage does not call
\* startTrace or send a request while an earlier turn's request is
\* outstanding, also when two submissions reach it before the component has
\* rendered again with isSending = true; so the server steps of a turn are
\* never put into the trace another turn started.
C38_OneTurnInFlight ==
    /\ Cardinality(outstanding) <= 1
    /\ \A i \in 1..Len(turnLog) :
          turnLog[i].op = "startTrace" =>
             \A earlier \in 1..(turnLog[i].turn - 1) : ClosedBefore(earlier, i)
    /\ \A i \in 1..Len(turnLog) :
          turnLog[i].op = "updateFromServer" =>
             \A j \in 1..(i - 1) :
                 turnLog[j].op = "startTrace" => turnLog[j].turn <= turnLog[i].turn

\* two submissions passed the guard of the same render; the answer to the
\* first came back after the second startTrace, and its step and its final
\* 'complete' are shown in the trace of the second turn, which still waits
C38_FailingState ==
    /\ turnsStarted = 2
    /\ epoch = 2
    /\ ~closureSending
    /\ 2 \in outstanding
    /\ 1 \notin outstanding
    /\ UpdatesTrace(responses[1])
    /\ ~staleApplied
    /\ \E i \in 1..Len(steps) :
          steps[i].id = "dispatching_to_gemini" /\ steps[i].detail = Str("sent")
    /\ \E i \in 1..Len(steps) :
          steps[i].id = "rendering_reply" /\ steps[i].status = "complete"

====
